---- MODULE Spec2Model ----
(***************************************************************************)
(* Gestionnaire de taches: the REST handlers of the server (authController *)
(* and taskController) over the four relations utilisateurs, listes,       *)
(* taches and historique_modifications.                                     *)
(*                                                                         *)
(* Conventions.  A nullable column holds Null (<<>>) or <<v>>.  A request  *)
(* body is a record holding exactly the fields the client sent, so that    *)
(* "f" \in DOMAIN corps is JavaScript's corps.f !== undefined.  Titles are  *)
(* sequences of characters (the route trims them); the other texts are      *)
(* strings.  Identifiers are well-formed UUIDs, written as small integers. *)
(***************************************************************************)
EXTENDS Integers, Sequences, FiniteSets, TLC

VARIABLES
    utilisateurs,    \* table utilisateurs: id -> row
    listes,          \* table listes: id -> row
    taches,          \* table taches: id -> row
    historique,      \* table historique_modifications, in insertion order
    nbListes,        \* number of list ids generated so far
    nbTaches,        \* number of task ids generated so far
    horloge,         \* NOW(): a logical clock
    enCours,         \* the handler suspended between two of its writes, or Aucun
    requete,         \* the last request received
    reponse,         \* the response sent to it
    mauvaisDeSuite,  \* per user: wrong-password logins since the last successful one
    changements,     \* per task: number of times its status has been changed
    jetons,          \* the tokens that login has handed to the clients
    client,          \* the web client: its local storage and the state of its login screen
    enVol            \* the requests handled concurrently, each with its position and its locals

vars == <<utilisateurs, listes, taches, historique, nbListes, nbTaches, horloge,
          enCours, requete, reponse, mauvaisDeSuite, changements, jetons, client,
          enVol>>

varsTaches == <<listes, taches, historique, nbListes, nbTaches, horloge, enCours, changements>>

----------------------------------------------------------------------------
(* Values *)

Null == <<>>

Aucun == [op |-> "aucun"]

Min(a, b) == IF a < b THEN a ELSE b

\* The web client when the page is loaded with an empty local storage: the login
\* screen, in login mode
ClientInitial ==
    [token |-> Null, utilisateur |-> Null, modeInscription |-> FALSE,
     messageSucces |-> Null, erreur |-> Null, erreurLocale |-> Null]

----------------------------------------------------------------------------
(* config/appConfig *)

maxLoginAttempts == 3

\* jwtExpiration = '24h', in hours
jwtExpiration == 24

jwtSecret == "JWT_SECRET"

----------------------------------------------------------------------------
(* bcrypt and jsonwebtoken *)

BcryptHash(motDePasse) == <<"bcrypt", motDePasse>>

BcryptCompare(motDePasse, hash) == hash = BcryptHash(motDePasse)

JwtSign(utilisateurId) ==
    [id |-> utilisateurId, email |-> utilisateurs[utilisateurId].email, iat |-> horloge,
     exp |-> horloge + jwtExpiration, signature |-> jwtSecret]

----------------------------------------------------------------------------
(* routes/authRoutes: validation and sanitization of the bodies *)

EmailsValides == {"a@x.com", "A@x.com", "b@x.com"}

Emails == EmailsValides \cup {"pas-un-email"}

MotsDePasse == {"secret1", "secret2", "court", ""}

NomAffichage == "Alice"

IsEmail(email) == email \in EmailsValides

NormalizeEmail(email) == IF email = "A@x.com" THEN "a@x.com" ELSE email

MotDePasseMin == 6

RegisterValide(email, motDePasse) == IsEmail(email) /\ Len(motDePasse) >= MotDePasseMin

LoginValide(email, motDePasse) == IsEmail(email) /\ motDePasse # ""

----------------------------------------------------------------------------
(* repositories/utilisateurRepository *)

TrouverParEmailSansResultat(email) == {}

TrouverParEmail(email) == {id \in DOMAIN utilisateurs : utilisateurs[id].email = email}

UtilisateurCreer(email, hash) ==
    LET id == Cardinality(DOMAIN utilisateurs) + 1
    IN  [i \in DOMAIN utilisateurs \cup {id} |->
            IF i = id
            THEN [email |-> email, nom_affichage |-> NomAffichage,
                  mot_de_passe_hash |-> hash, actif |-> TRUE, tentatives_echec |-> 0]
            ELSE utilisateurs[i]]

IncrementerTentativesEchec(id) ==
    [utilisateurs EXCEPT ![id].tentatives_echec = @ + 1]

ReinitialiserOublie(id) == utilisateurs

ReinitialiserTentativesEchec(id) ==
    [utilisateurs EXCEPT ![id].tentatives_echec = 0]

----------------------------------------------------------------------------
(* controllers/authController *)

VerrouilleStrict(u) == u.tentatives_echec > maxLoginAttempts

VerrouilleUnDeMoins(u) == u.tentatives_echec >= maxLoginAttempts - 1

Verrouille(u) == u.tentatives_echec >= maxLoginAttempts

RechargerPerime(id) == utilisateurs[id]

Recharger(id) == utilisateurs'[id]

Compter(n) == Min(n + 1, maxLoginAttempts + 1)

MsgEmailExiste == "Un compte avec cet email existe deja."

MsgIdentifiants == "Identifiants invalides."

MsgVerrouille == "Compte verrouille suite a trop de tentatives echouees."

Erreur(op, statut, msg) == [op |-> op, statut |-> statut, erreur |-> msg, data |-> Null]

Succes(op, statut, data) == [op |-> op, statut |-> statut, erreur |-> "", data |-> <<data>>]

Register(emailBrut, motDePasse) ==
    LET email == NormalizeEmail(emailBrut) IN
    /\ enCours = Aucun
    /\ requete' = [op |-> "register", email |-> emailBrut, mot_de_passe |-> motDePasse]
    /\ IF ~RegisterValide(emailBrut, motDePasse)
       THEN /\ reponse' = Erreur("register", 400, "validation")
            /\ UNCHANGED <<utilisateurs, mauvaisDeSuite>>
       ELSE IF TrouverParEmail(email) # {}
       THEN /\ reponse' = Erreur("register", 400, MsgEmailExiste)
            /\ UNCHANGED <<utilisateurs, mauvaisDeSuite>>
       ELSE LET id == Cardinality(DOMAIN utilisateurs) + 1 IN
            /\ utilisateurs' = UtilisateurCreer(email, BcryptHash(motDePasse))
            /\ mauvaisDeSuite' = [i \in DOMAIN utilisateurs \cup {id} |->
                                     IF i = id THEN 0 ELSE mauvaisDeSuite[i]]
            /\ reponse' = Succes("register", 201,
                                 [id |-> id, email |-> email, nom_affichage |-> NomAffichage])
    /\ UNCHANGED <<jetons, enVol>>
    /\ UNCHANGED varsTaches

Login(emailBrut, motDePasse) ==
    LET email == NormalizeEmail(emailBrut)
        trouves == TrouverParEmail(email)
    IN
    /\ enCours = Aucun
    /\ requete' = [op |-> "login", email |-> emailBrut, mot_de_passe |-> motDePasse]
    /\ IF ~LoginValide(emailBrut, motDePasse)
       THEN /\ reponse' = Erreur("login", 400, "validation")
            /\ UNCHANGED <<utilisateurs, mauvaisDeSuite>>
       ELSE IF trouves = {}
       THEN /\ reponse' = Erreur("login", 401, MsgIdentifiants)
            /\ UNCHANGED <<utilisateurs, mauvaisDeSuite>>
       ELSE LET id == CHOOSE i \in trouves : TRUE
                utilisateur == utilisateurs[id]
            IN
            IF Verrouille(utilisateur)
            THEN /\ reponse' = Erreur("login", 423, MsgVerrouille)
                 /\ mauvaisDeSuite' =
                        IF BcryptCompare(motDePasse, utilisateur.mot_de_passe_hash)
                        THEN mauvaisDeSuite
                        ELSE [mauvaisDeSuite EXCEPT ![id] = Compter(@)]
                 /\ UNCHANGED utilisateurs
            ELSE IF ~BcryptCompare(motDePasse, utilisateur.mot_de_passe_hash)
            THEN /\ utilisateurs' = IncrementerTentativesEchec(id)
                 /\ mauvaisDeSuite' = [mauvaisDeSuite EXCEPT ![id] = Compter(@)]
                 /\ reponse' = IF Verrouille(Recharger(id))
                               THEN Erreur("login", 423, MsgVerrouille)
                               ELSE Erreur("login", 401, MsgIdentifiants)
            ELSE /\ utilisateurs' = ReinitialiserTentativesEchec(id)
                 /\ mauvaisDeSuite' = [mauvaisDeSuite EXCEPT ![id] = 0]
                 /\ reponse' = Succes("login", 200,
                                      [token |-> JwtSign(id),
                                       utilisateur |-> [id |-> id, email |-> utilisateur.email,
                                                        nom_affichage |-> utilisateur.nom_affichage]])
    /\ jetons' = IF reponse'.statut = 200
                  THEN jetons \cup {reponse'.data[1].token}
                  ELSE jetons
    /\ UNCHANGED enVol
    /\ UNCHANGED varsTaches

----------------------------------------------------------------------------
(* models/Tache, models/Liste: the values of the columns *)

Statuts == {"A_FAIRE", "EN_COURS", "TERMINEE"}

Priorites == {"BASSE", "MOYENNE", "HAUTE", "URGENTE"}

CouleurDefaut == "#3B82F6"

Couleurs == {CouleurDefaut, "#FF0000"}

----------------------------------------------------------------------------
(* routes/taskRoutes, routes/listRoutes: validation and sanitization *)

RECURSIVE TrimGauche(_)
TrimGauche(s) == IF s # <<>> /\ Head(s) = " " THEN TrimGauche(Tail(s)) ELSE s

RECURSIVE TrimDroite(_)
TrimDroite(s) ==
    IF s # <<>> /\ s[Len(s)] = " " THEN TrimDroite(SubSeq(s, 1, Len(s) - 1)) ELSE s

Trim(s) == TrimDroite(TrimGauche(s))

TitreMin == 3

TitreMax == 100

DescriptionMax == 2000

NomMax == 100

TitreValide(titre) == Len(Trim(titre)) >= TitreMin /\ Len(Trim(titre)) <= TitreMax

DescriptionValide(corps) ==
    ("description" \in DOMAIN corps /\ corps.description # Null)
        => Len(corps.description[1]) <= DescriptionMax

CreationValide(corps) ==
    /\ "titre" \in DOMAIN corps
    /\ TitreValide(corps.titre)
    /\ DescriptionValide(corps)
    /\ "priorite" \in DOMAIN corps => corps.priorite \in Priorites

ModificationValide(corps) ==
    /\ "titre" \in DOMAIN corps => TitreValide(corps.titre)
    /\ DescriptionValide(corps)
    /\ "statut" \in DOMAIN corps => corps.statut \in Statuts
    /\ "priorite" \in DOMAIN corps => corps.priorite \in Priorites

AssainirSansTrim(corps) == corps

Assainir(corps) ==
    IF "titre" \in DOMAIN corps THEN [corps EXCEPT !.titre = Trim(@)] ELSE corps

\* List names are strings without surrounding spaces, which trim() leaves as they are
NomValide(nom) == Len(nom) >= 1 /\ Len(nom) <= NomMax

ListeCreationValide(corps) ==
    /\ "nom" \in DOMAIN corps
    /\ NomValide(corps.nom)
    /\ "couleur" \in DOMAIN corps => corps.couleur \in Couleurs
    /\ "ordre" \in DOMAIN corps => corps.ordre >= 0

ListeModificationValide(corps) ==
    /\ "nom" \in DOMAIN corps => NomValide(corps.nom)
    /\ "couleur" \in DOMAIN corps => corps.couleur \in Couleurs
    /\ "ordre" \in DOMAIN corps => corps.ordre >= 0

----------------------------------------------------------------------------
(* JavaScript: x || null on a body field, and object merging *)

TexteOuNull(corps, champ) ==
    IF champ \notin DOMAIN corps \/ corps[champ] = Null \/ corps[champ] = <<"">>
    THEN Null
    ELSE corps[champ]

ValeurOuNull(corps, champ) ==
    IF champ \notin DOMAIN corps THEN Null ELSE corps[champ]

Fusion(a, b) ==
    [f \in DOMAIN a \cup DOMAIN b |-> IF f \in DOMAIN b THEN b[f] ELSE a[f]]

RestreintOuNull(corps, champs) ==
    [f \in champs |-> IF f \in DOMAIN corps THEN corps[f] ELSE Null]

Restreint(corps, champs) == [f \in DOMAIN corps \cap champs |-> corps[f]]

----------------------------------------------------------------------------
(* repositories/listeRepository *)

ListeTrouverParId(id) == IF id \in DOMAIN listes THEN <<listes[id]>> ELSE Null

ListeCreer(id, donnees) ==
    [i \in DOMAIN listes \cup {id} |-> IF i = id THEN donnees ELSE listes[i]]

ListeMettreAJour(id, donnees) ==
    [listes EXCEPT ![id] = Fusion(@, donnees)]

ListeSupprimer(id) == [i \in DOMAIN listes \ {id} |-> listes[i]]

\* A removal of the list that leaves the tasks as they are
ListeSupprimerSansCle(id) == taches

\* taches.liste_id REFERENCES listes ON DELETE SET NULL
ListeSupprimerCle(id) ==
    [t \in DOMAIN taches |->
        IF taches[t].liste_id = <<id>>
        THEN [taches[t] EXCEPT !.liste_id = Null]
        ELSE taches[t]]

----------------------------------------------------------------------------
(* repositories/tacheRepository *)

TacheCreer(id, donnees) ==
    [i \in DOMAIN taches \cup {id} |->
        IF i = id
        THEN Fusion([date_creation |-> horloge + 1, date_completion |-> Null], donnees)
        ELSE taches[i]]

\* The row with its id and the summary of its list, as findByPk includes it
Vue(tables, id) ==
    LET t == tables.taches[id] IN
    Fusion(t, [id |-> id,
               liste |-> IF t.liste_id # Null /\ t.liste_id[1] \in DOMAIN tables.listes
                         THEN <<[id |-> t.liste_id[1],
                                 nom |-> tables.listes[t.liste_id[1]].nom,
                                 couleur |-> tables.listes[t.liste_id[1]].couleur]>>
                         ELSE Null])

TrouverParId(id) ==
    IF id \in DOMAIN taches
    THEN <<Vue([taches |-> taches, listes |-> listes], id)>>
    ELSE Null

MettreAJour(id, donnees) == [taches EXCEPT ![id] = Fusion(@, donnees)]

Supprimer(id) == [i \in DOMAIN taches \ {id} |-> taches[i]]

HistoriqueConserve(id) == historique

\* historique_modifications.tache_id REFERENCES taches ON DELETE CASCADE
SupprimerCle(id) == SelectSeq(historique, LAMBDA h : h.tache_id # id)

EnregistrerHistoriqueInverse(tacheId, ancienStatut, nouveauStatut) ==
    Append(historique, [tache_id |-> tacheId, ancien_statut |-> nouveauStatut,
                        nouveau_statut |-> ancienStatut, date_modification |-> horloge])

EnregistrerHistorique(tacheId, ancienStatut, nouveauStatut) ==
    Append(historique, [tache_id |-> tacheId, ancien_statut |-> ancienStatut,
                        nouveau_statut |-> nouveauStatut, date_modification |-> horloge])

\* The status changes counted once the table taches has gone from avant to apres
StatutsChanges(avant, apres) ==
    [id \in DOMAIN apres |->
        IF id \notin DOMAIN avant THEN 0
        ELSE IF apres[id].statut # avant[id].statut THEN changements[id] + 1
        ELSE changements[id]]

DissocierToutes(listeId) ==
    [t \in DOMAIN taches |-> [taches[t] EXCEPT !.liste_id = Null]]

DissocierListe(listeId) ==
    [t \in DOMAIN taches |->
        IF taches[t].liste_id = <<listeId>>
        THEN [taches[t] EXCEPT !.liste_id = Null]
        ELSE taches[t]]

----------------------------------------------------------------------------
(* controllers/taskController: tasks *)

MsgTacheNonTrouvee == "Tache non trouvee."

MsgTacheInterdite == "Acces non autorise a cette tache."

MsgListeRefusee == "Liste non trouvee ou non autorisee."

MsgListeNonTrouvee == "Liste non trouvee."

MsgListeInterdite == "Acces non autorise a cette liste."

ProprietaireToujours(ligne, u) == TRUE

ProprietaireOuPremier(ligne, u) == ligne.utilisateur_id = u \/ u = 1

Proprietaire(ligne, u) == ligne.utilisateur_id = u

ListeRefuseeJamais(listeId, u) == FALSE

ListeRefuseeSiAbsente(listeId, u) == ListeTrouverParId(listeId) = Null

\* !liste || liste.utilisateur_id !== req.utilisateur.id
ListeRefusee(listeId, u) ==
    \/ ListeTrouverParId(listeId) = Null
    \/ ~Proprietaire(ListeTrouverParId(listeId)[1], u)

CreerTache(u, corpsBrut) ==
    LET corps == Assainir(corpsBrut)
        id == nbTaches + 1
    IN
    /\ enCours = Aucun
    /\ requete' = [op |-> "creerTache", utilisateur |-> u]
    /\ IF ~CreationValide(corpsBrut)
       THEN /\ reponse' = Erreur("creerTache", 400, "validation")
            /\ UNCHANGED <<taches, nbTaches, horloge>>
       ELSE IF ValeurOuNull(corps, "liste_id") # Null
               /\ ListeRefusee(corps.liste_id[1], u)
       THEN /\ reponse' = Erreur("creerTache", 403, MsgListeRefusee)
            /\ UNCHANGED <<taches, nbTaches, horloge>>
       ELSE /\ taches' = TacheCreer(id,
                            [titre |-> corps.titre,
                             description |-> TexteOuNull(corps, "description"),
                             priorite |-> IF "priorite" \in DOMAIN corps
                                          THEN corps.priorite ELSE "MOYENNE",
                             date_echeance |-> ValeurOuNull(corps, "date_echeance"),
                             liste_id |-> ValeurOuNull(corps, "liste_id"),
                             statut |-> "A_FAIRE",
                             utilisateur_id |-> u])
            /\ nbTaches' = id
            /\ horloge' = horloge + 1
            /\ reponse' = Succes("creerTache", 201,
                                 Vue([taches |-> taches', listes |-> listes], id))
    /\ changements' = StatutsChanges(taches, taches')
    /\ UNCHANGED <<utilisateurs, mauvaisDeSuite, jetons, client, enVol, listes, historique, nbListes, enCours>>

DetailTache(u, id) ==
    /\ enCours = Aucun
    /\ requete' = [op |-> "detailTache", utilisateur |-> u, id |-> id]
    /\ reponse' =
          IF TrouverParId(id) = Null
          THEN Erreur("detailTache", 404, MsgTacheNonTrouvee)
          ELSE IF ~Proprietaire(TrouverParId(id)[1], u)
          THEN Erreur("detailTache", 403, MsgTacheInterdite)
          ELSE Succes("detailTache", 200, TrouverParId(id)[1])
    /\ UNCHANGED <<utilisateurs, mauvaisDeSuite, jetons, client, enVol>>
    /\ UNCHANGED varsTaches

CompletionSansRemiseANull(statut, ancien) ==
    IF statut = "TERMINEE" THEN [date_completion |-> <<horloge>>] ELSE <<>>

\* The completion date a status change from ancien to statut writes
Completion(statut, ancien) ==
    IF statut = "TERMINEE"
    THEN [date_completion |-> <<horloge>>]
    ELSE IF ancien = "TERMINEE"
    THEN [date_completion |-> Null]
    ELSE <<>>

StatutChangeSansComparer(corps, tache) == "statut" \in DOMAIN corps

StatutChange(corps, tache) == "statut" \in DOMAIN corps /\ corps.statut # tache.statut

DonneesMAJ(corps, tache) ==
    Fusion(Restreint(corps, {"titre", "description", "priorite", "date_echeance", "liste_id"}),
           IF StatutChange(corps, tache)
           THEN Fusion([statut |-> corps.statut], Completion(corps.statut, tache.statut))
           ELSE <<>>)

ModifierTache(u, id, corpsBrut) ==
    LET corps == Assainir(corpsBrut) IN
    /\ enCours = Aucun
    /\ requete' = [op |-> "modifierTache", utilisateur |-> u, id |-> id]
    /\ IF ~ModificationValide(corpsBrut)
       THEN /\ reponse' = Erreur("modifierTache", 400, "validation")
            /\ UNCHANGED <<taches, historique, enCours>>
       ELSE IF TrouverParId(id) = Null
       THEN /\ reponse' = Erreur("modifierTache", 404, MsgTacheNonTrouvee)
            /\ UNCHANGED <<taches, historique, enCours>>
       ELSE IF ~Proprietaire(TrouverParId(id)[1], u)
       THEN /\ reponse' = Erreur("modifierTache", 403, MsgTacheInterdite)
            /\ UNCHANGED <<taches, historique, enCours>>
       ELSE IF ValeurOuNull(corps, "liste_id") # Null
               /\ ListeRefusee(corps.liste_id[1], u)
       THEN /\ reponse' = Erreur("modifierTache", 403, MsgListeRefusee)
            /\ UNCHANGED <<taches, historique, enCours>>
       ELSE IF StatutChange(corps, taches[id])
       THEN /\ historique' = EnregistrerHistorique(id, taches[id].statut, corps.statut)
            /\ enCours' = [op |-> "modifierTache", utilisateur |-> u, id |-> id,
                           donneesMAJ |-> DonneesMAJ(corps, taches[id])]
            /\ reponse' = Aucun
            /\ UNCHANGED taches
       ELSE /\ taches' = MettreAJour(id, DonneesMAJ(corps, taches[id]))
            /\ reponse' = Succes("modifierTache", 200,
                                 Vue([taches |-> taches', listes |-> listes], id))
            /\ UNCHANGED <<historique, enCours>>
    /\ changements' = StatutsChanges(taches, taches')
    /\ UNCHANGED <<utilisateurs, mauvaisDeSuite, jetons, client, enVol, listes, nbListes, nbTaches, horloge>>

\* The rest of modifierTache once the history entry is written
ModifierTacheFin ==
    /\ enCours.op = "modifierTache"
    /\ taches' = MettreAJour(enCours.id, enCours.donneesMAJ)
    /\ reponse' = Succes("modifierTache", 200,
                         Vue([taches |-> taches', listes |-> listes], enCours.id))
    /\ enCours' = Aucun
    /\ changements' = StatutsChanges(taches, taches')
    /\ UNCHANGED <<utilisateurs, mauvaisDeSuite, jetons, client, enVol, listes, historique, nbListes, nbTaches,
                   horloge, requete>>

SupprimerTache(u, id) ==
    /\ enCours = Aucun
    /\ requete' = [op |-> "supprimerTache", utilisateur |-> u, id |-> id]
    /\ IF TrouverParId(id) = Null
       THEN /\ reponse' = Erreur("supprimerTache", 404, MsgTacheNonTrouvee)
            /\ UNCHANGED <<taches, historique>>
       ELSE IF ~Proprietaire(TrouverParId(id)[1], u)
       THEN /\ reponse' = Erreur("supprimerTache", 403, MsgTacheInterdite)
            /\ UNCHANGED <<taches, historique>>
       ELSE /\ taches' = Supprimer(id)
            /\ historique' = SupprimerCle(id)
            /\ reponse' = Succes("supprimerTache", 200, "Tache supprimee avec succes.")
    /\ changements' = StatutsChanges(taches, taches')
    /\ UNCHANGED <<utilisateurs, mauvaisDeSuite, jetons, client, enVol, listes, nbListes, nbTaches, horloge, enCours>>

----------------------------------------------------------------------------
(* controllers/taskController: lists *)

CreerListe(u, corps) ==
    LET id == nbListes + 1 IN
    /\ enCours = Aucun
    /\ requete' = [op |-> "creerListe", utilisateur |-> u]
    /\ IF ~ListeCreationValide(corps)
       THEN /\ reponse' = Erreur("creerListe", 400, "validation")
            /\ UNCHANGED <<listes, nbListes>>
       ELSE /\ listes' = ListeCreer(id,
                            [nom |-> corps.nom,
                             couleur |-> IF "couleur" \in DOMAIN corps
                                         THEN corps.couleur ELSE CouleurDefaut,
                             ordre |-> IF "ordre" \in DOMAIN corps THEN corps.ordre ELSE 0,
                             utilisateur_id |-> u])
            /\ nbListes' = id
            /\ reponse' = Succes("creerListe", 201, Fusion(listes'[id], [id |-> id]))
    /\ UNCHANGED <<utilisateurs, mauvaisDeSuite, jetons, client, enVol, taches, historique, nbTaches, horloge, enCours,
                   changements>>

ModifierListe(u, id, corps) ==
    /\ enCours = Aucun
    /\ requete' = [op |-> "modifierListe", utilisateur |-> u, id |-> id]
    /\ IF ~ListeModificationValide(corps)
       THEN /\ reponse' = Erreur("modifierListe", 400, "validation")
            /\ UNCHANGED listes
       ELSE IF ListeTrouverParId(id) = Null
       THEN /\ reponse' = Erreur("modifierListe", 404, MsgListeNonTrouvee)
            /\ UNCHANGED listes
       ELSE IF ~Proprietaire(listes[id], u)
       THEN /\ reponse' = Erreur("modifierListe", 403, MsgListeInterdite)
            /\ UNCHANGED listes
       ELSE /\ listes' = ListeMettreAJour(id, Restreint(corps, {"nom", "couleur", "ordre"}))
            /\ reponse' = Succes("modifierListe", 200, Fusion(listes'[id], [id |-> id]))
    /\ UNCHANGED <<utilisateurs, mauvaisDeSuite, jetons, client, enVol, taches, historique, nbListes, nbTaches,
                   horloge, enCours, changements>>

SupprimerListe(u, id) ==
    /\ enCours = Aucun
    /\ requete' = [op |-> "supprimerListe", utilisateur |-> u, id |-> id]
    /\ IF ListeTrouverParId(id) = Null
       THEN /\ reponse' = Erreur("supprimerListe", 404, MsgListeNonTrouvee)
            /\ UNCHANGED <<taches, enCours>>
       ELSE IF ~Proprietaire(listes[id], u)
       THEN /\ reponse' = Erreur("supprimerListe", 403, MsgListeInterdite)
            /\ UNCHANGED <<taches, enCours>>
       ELSE /\ taches' = DissocierListe(id)
            /\ enCours' = [op |-> "supprimerListe", utilisateur |-> u, id |-> id,
                           dissociees |-> {t \in DOMAIN taches : taches[t].liste_id = <<id>>}]
            /\ reponse' = Aucun
    /\ changements' = StatutsChanges(taches, taches')
    /\ UNCHANGED <<utilisateurs, mauvaisDeSuite, jetons, client, enVol, listes, historique, nbListes, nbTaches, horloge>>

\* The rest of supprimerListe once the tasks are dissociated
SupprimerListeFin ==
    /\ enCours.op = "supprimerListe"
    /\ listes' = ListeSupprimer(enCours.id)
    /\ taches' = ListeSupprimerCle(enCours.id)
    /\ reponse' = Succes("supprimerListe", 200, "Liste supprimee avec succes.")
    /\ enCours' = Aucun
    /\ changements' = StatutsChanges(taches, taches')
    /\ UNCHANGED <<utilisateurs, mauvaisDeSuite, jetons, client, enVol, historique, nbListes, nbTaches, horloge,
                   requete>>

(* repositories/listeRepository and controllers/taskController: the lists of a
   user with the number of their tasks *)

\* The place of a list name in the order of the column nom
Rang(nom) == CASE nom = "Home" -> 1
               [] nom = "Work" -> 2

\* ORDER BY ordre ASC, nom ASC: the row a comes strictly before the row b
PrecedeListe(a, b) ==
    \/ a.ordre < b.ordre
    \/ a.ordre = b.ordre /\ Rang(a.nom) < Rang(b.nom)

\* The orders in which the database may return the rows ids: the ORDER BY clause
\* leaves the order of two rows with the same ordre and nom open
Tris(ids) ==
    {s \in [1..Cardinality(ids) -> ids] :
        /\ \A i, j \in DOMAIN s : i # j => s[i] # s[j]
        /\ \A i, j \in DOMAIN s : i < j => ~PrecedeListe(listes[s[j]], listes[s[i]])}

NombreTachesLiees(id) ==
    Cardinality({t \in DOMAIN taches : taches[t].liste_id # Null})

\* (SELECT COUNT(*) FROM taches WHERE taches.liste_id = Liste.id)
NombreTaches(id) ==
    Cardinality({t \in DOMAIN taches : taches[t].liste_id = <<id>>})

ListeListerParUtilisateur(utilisateurId) ==
    {[i \in DOMAIN s |->
         Fusion(listes[s[i]], [id |-> s[i], nombre_taches |-> NombreTaches(s[i])])] :
     s \in Tris({id \in DOMAIN listes : listes[id].utilisateur_id = utilisateurId})}

ListerListes(u) ==
    /\ enCours = Aucun
    /\ requete' = [op |-> "listerListes", utilisateur |-> u]
    /\ \E lignes \in ListeListerParUtilisateur(u) :
          reponse' = Succes("listerListes", 200, [listes |-> lignes])
    /\ UNCHANGED <<utilisateurs, mauvaisDeSuite, jetons, client, enVol>>
    /\ UNCHANGED varsTaches

MsgErreurInterne == "Erreur interne du serveur."

\* modifierTache when mettreAJour throws once the history entry is written: the
\* catch block answers 500
ModifierTacheEchec ==
    /\ enCours.op = "modifierTache"
    /\ reponse' = Erreur("modifierTache", 500, MsgErreurInterne)
    /\ enCours' = Aucun
    /\ UNCHANGED <<utilisateurs, mauvaisDeSuite, jetons, client, enVol, listes, taches, historique, nbListes,
                   nbTaches, horloge, requete, changements>>

\* supprimerListe when supprimer throws once the tasks are dissociated: the catch
\* block answers 500
SupprimerListeEchec ==
    /\ enCours.op = "supprimerListe"
    /\ reponse' = Erreur("supprimerListe", 500, MsgErreurInterne)
    /\ enCours' = Aucun
    /\ UNCHANGED <<utilisateurs, mauvaisDeSuite, jetons, client, enVol, listes, taches, historique, nbListes,
                   nbTaches, horloge, requete, changements>>

----------------------------------------------------------------------------
(* repositories/tacheRepository and controllers/taskController: the listing.
   A value of the query string is absent (Null) or <<value>>; page and limit are
   texts: Nombre(n) is the decimal text of n, PasUnNombre a text with no digit. *)

defaultPageLimit == 20

defaultPage == 1

Nombre(n) == <<[numerique |-> TRUE, entier |-> n]>>

PasUnNombre == <<[numerique |-> FALSE, entier |-> 0]>>

\* parseInt(texte, 10): Null stands for NaN
ParseInt(texte) ==
    IF texte = Null \/ ~texte[1].numerique THEN Null ELSE <<texte[1].entier>>

\* parseInt(...) || defaut: NaN and 0 are falsy
OuDefaut(n, defaut) == IF n = Null \/ n[1] = 0 THEN defaut ELSE n[1]

\* if (statut), if (priorite): an absent value and the empty text are falsy
Fourni(texte) == texte # Null /\ texte # <<"">>

CorrespondSansProprietaire(t, utilisateurId, options) ==
    /\ Fourni(options.statut) => t.statut = options.statut[1]
    /\ Fourni(options.priorite) => t.priorite = options.priorite[1]
    /\ options.liste_id # Null => t.liste_id = options.liste_id

\* The where clause of listerParUtilisateur
Correspond(t, utilisateurId, options) ==
    /\ t.utilisateur_id = utilisateurId
    /\ Fourni(options.statut) => t.statut = options.statut[1]
    /\ Fourni(options.priorite) => t.priorite = options.priorite[1]
    /\ options.liste_id # Null => t.liste_id = options.liste_id

PrecedeNullsDAbord(a, b) ==
    IF (a.date_echeance = Null) # (b.date_echeance = Null)
    THEN a.date_echeance = Null
    ELSE IF a.date_echeance # Null /\ a.date_echeance # b.date_echeance
    THEN a.date_echeance[1] < b.date_echeance[1]
    ELSE a.date_creation > b.date_creation

\* ORDER BY date_echeance IS NULL ASC, date_echeance ASC, date_creation DESC:
\* the row a comes before the row b
Precede(a, b) ==
    IF (a.date_echeance = Null) # (b.date_echeance = Null)
    THEN b.date_echeance = Null
    ELSE IF a.date_echeance # Null /\ a.date_echeance # b.date_echeance
    THEN a.date_echeance[1] < b.date_echeance[1]
    ELSE a.date_creation > b.date_creation

\* The ids in the order of the ORDER BY clause; no two rows have the same
\* date_creation, so the order is total
RECURSIVE Trier(_, _)
Trier(lignes, ids) ==
    IF ids = {}
    THEN <<>>
    ELSE LET premier == CHOOSE i \in ids :
                            \A j \in ids \ {i} : ~Precede(lignes[j], lignes[i])
         IN  <<premier>> \o Trier(lignes, ids \ {premier})

TrancheDepuisLeDebut(triees, offset, limit) ==
    [i \in 1..Min(limit, Len(triees)) |-> triees[i]]

\* LIMIT limit OFFSET offset
Tranche(triees, offset, limit) ==
    [i \in 1..Min(limit, Len(triees) - offset) |-> triees[offset + i]]

\* findAndCountAll on the tables
TrouverEtCompter(tables, utilisateurId, options) ==
    LET offset == (options.page - 1) * options.limit
        triees == Trier(tables.taches,
                        {id \in DOMAIN tables.taches :
                            Correspond(tables.taches[id], utilisateurId, options)})
        ids == Tranche(triees, offset, options.limit)
    IN  [rows |-> [i \in DOMAIN ids |-> Vue(tables, ids[i])],
         count |-> Len(triees)]

ListerParUtilisateur(utilisateurId, options) ==
    TrouverEtCompter([taches |-> taches, listes |-> listes], utilisateurId, options)

CompterTout(utilisateurId) ==
    LET \* every row, whoever owns it
        Nb(statut) == Cardinality({id \in DOMAIN taches : taches[id].statut = statut})
    IN  [total |-> Cardinality(DOMAIN taches), A_FAIRE |-> Nb("A_FAIRE"),
         EN_COURS |-> Nb("EN_COURS"), TERMINEE |-> Nb("TERMINEE")]

CompterParStatut(utilisateurId) ==
    LET possedees == {id \in DOMAIN taches : taches[id].utilisateur_id = utilisateurId}
        Nb(statut) == Cardinality({id \in possedees : taches[id].statut = statut})
    IN  [total |-> Cardinality(possedees), A_FAIRE |-> Nb("A_FAIRE"),
         EN_COURS |-> Nb("EN_COURS"), TERMINEE |-> Nb("TERMINEE")]

\* Math.ceil(total / limit) for limit > 0
Plafond(total, limit) == (total + limit - 1) \div limit

ListerTaches(u, query) ==
    LET page == OuDefaut(ParseInt(query.page), defaultPage)
        limit == OuDefaut(ParseInt(query.limit), defaultPageLimit)
        resultat == ListerParUtilisateur(u, [page |-> page, limit |-> limit,
                                             statut |-> query.statut,
                                             priorite |-> query.priorite,
                                             liste_id |-> query.liste_id])
    IN
    /\ enCours = Aucun
    /\ requete' = [op |-> "listerTaches", utilisateur |-> u, query |-> query]
    /\ reponse' = Succes("listerTaches", 200,
                         [taches |-> resultat.rows,
                          compteurs |-> CompterParStatut(u),
                          pagination |-> [page |-> page, limit |-> limit,
                                          total |-> resultat.count,
                                          totalPages |-> Plafond(resultat.count, limit)]])
    /\ UNCHANGED <<utilisateurs, mauvaisDeSuite, jetons, client, enVol>>
    /\ UNCHANGED varsTaches

----------------------------------------------------------------------------
(* controllers/taskController and repositories/tacheRepository: the search.
   The keyword and the texts it is matched against are sequences of characters *)

MsgRechercheRequise == "Le parametre de recherche q est requis."

\* PostgreSQL compares the two sides of ILIKE without regard to case
Minuscule(c) == CASE c = "A" -> "a"
                  [] c = "B" -> "b"
                  [] c = "C" -> "c"
                  [] OTHER -> c

\* texte ILIKE motif: % stands for any run of characters and _ for any one
\* character, whoever wrote them into the pattern
RECURSIVE ILike(_, _)
ILike(texte, motif) ==
    IF motif = <<>>
    THEN texte = <<>>
    ELSE IF Head(motif) = "%"
    THEN ILike(texte, Tail(motif)) \/ (texte # <<>> /\ ILike(Tail(texte), motif))
    ELSE /\ texte # <<>>
         /\ Head(motif) = "_" \/ Minuscule(Head(texte)) = Minuscule(Head(motif))
         /\ ILike(Tail(texte), Tail(motif))

\* `%${recherche}%`
Motif(recherche) == <<"%">> \o recherche \o <<"%">>

\* The where clause of rechercher; NULL ILIKE motif is not true
CorrespondRecherche(t, utilisateurId, recherche) ==
    /\ t.utilisateur_id = utilisateurId
    /\ \/ ILike(t.titre, Motif(recherche))
       \/ t.description # Null /\ ILike(t.description[1], Motif(recherche))

\* ORDER BY date_creation DESC
RECURSIVE TrierParCreation(_, _)
TrierParCreation(lignes, ids) ==
    IF ids = {}
    THEN <<>>
    ELSE LET premier == CHOOSE i \in ids :
                            \A j \in ids : lignes[j].date_creation <= lignes[i].date_creation
         IN  <<premier>> \o TrierParCreation(lignes, ids \ {premier})

TacheRechercher(utilisateurId, recherche) ==
    LET ids == TrierParCreation(taches,
                   {id \in DOMAIN taches :
                       CorrespondRecherche(taches[id], utilisateurId, recherche)})
    IN  [i \in DOMAIN ids |-> Vue([taches |-> taches, listes |-> listes], ids[i])]

\* q is absent (Null) or <<text>>.  ILIKE is an operator of PostgreSQL; the
\* database either accepts the statement or rejects it (SQLite, which app.js
\* connects to, has no ILIKE), and then the catch block answers 500
Rechercher(u, q) ==
    /\ enCours = Aucun
    /\ requete' = [op |-> "rechercher", utilisateur |-> u, q |-> q]
    /\ \E accepte \in BOOLEAN :
          reponse' =
             IF q = Null \/ Len(Trim(q[1])) = 0
             THEN Erreur("rechercher", 400, MsgRechercheRequise)
             ELSE IF accepte
             THEN Succes("rechercher", 200, [taches |-> TacheRechercher(u, Trim(q[1]))])
             ELSE Erreur("rechercher", 500, MsgErreurInterne)
    /\ UNCHANGED <<utilisateurs, mauvaisDeSuite, jetons, client, enVol>>
    /\ UNCHANGED varsTaches

----------------------------------------------------------------------------
(* controllers/authController: the profile of the authenticated user *)

NouveauMotDePasseMin == 6

MsgUtilisateurNonTrouve == "Utilisateur non trouve."

MsgAncienIncorrect == "L'ancien mot de passe est incorrect."

MsgMotDePasseModifie == "Mot de passe modifie avec succes."

ChangePasswordValide(ancien, nouveau) ==
    ancien # "" /\ Len(nouveau) >= NouveauMotDePasseMin

MotDePasseInchange(id, hash) == utilisateurs

MettreAJourMotDePasse(id, hash) ==
    [utilisateurs EXCEPT ![id].mot_de_passe_hash = hash]

\* trouverParId: the row without its mot_de_passe_hash
UtilisateurTrouverParId(id) ==
    [id |-> id, email |-> utilisateurs[id].email,
     nom_affichage |-> utilisateurs[id].nom_affichage,
     actif |-> utilisateurs[id].actif,
     tentatives_echec |-> utilisateurs[id].tentatives_echec]

GetProfil(u) ==
    /\ enCours = Aucun
    /\ requete' = [op |-> "getProfil", utilisateur |-> u]
    /\ reponse' = IF u \notin DOMAIN utilisateurs
                  THEN Erreur("getProfil", 404, MsgUtilisateurNonTrouve)
                  ELSE Succes("getProfil", 200, [utilisateur |-> UtilisateurTrouverParId(u)])
    /\ UNCHANGED <<utilisateurs, mauvaisDeSuite, jetons, client, enVol>>
    /\ UNCHANGED varsTaches

ChangePassword(u, ancien, nouveau) ==
    /\ enCours = Aucun
    /\ requete' = [op |-> "changePassword", utilisateur |-> u,
                   ancien_mot_de_passe |-> ancien, nouveau_mot_de_passe |-> nouveau]
    /\ IF ~ChangePasswordValide(ancien, nouveau)
       THEN /\ reponse' = Erreur("changePassword", 400, "validation")
            /\ UNCHANGED utilisateurs
       ELSE IF u \notin DOMAIN utilisateurs
       THEN /\ reponse' = Erreur("changePassword", 404, MsgUtilisateurNonTrouve)
            /\ UNCHANGED utilisateurs
       ELSE IF ~BcryptCompare(ancien, utilisateurs[u].mot_de_passe_hash)
       THEN /\ reponse' = Erreur("changePassword", 400, MsgAncienIncorrect)
            /\ UNCHANGED utilisateurs
       ELSE /\ utilisateurs' = MettreAJourMotDePasse(u, BcryptHash(nouveau))
            /\ reponse' = Succes("changePassword", 200, [message |-> MsgMotDePasseModifie])
    /\ UNCHANGED <<mauvaisDeSuite, jetons, client, enVol>>
    /\ UNCHANGED varsTaches

----------------------------------------------------------------------------
(* middlewares/authMiddleware *)

MsgJetonManquant == "Token d'authentification manquant ou invalide."

MsgJetonExpire == "Le token a expire. Veuillez vous reconnecter."

MsgJetonInvalide == "Token invalide."

\* The Authorization header: absent (Null), or a scheme followed by a text that is
\* a JSON web token (<<jeton>>) or is not one (Null).
Entete(schema, jeton) == [schema |-> schema, jeton |-> jeton]

Bearer(jeton) == Entete("Bearer", <<jeton>>)

JwtVerifySansExpiration(jeton) ==
    IF jeton = Null \/ jeton[1].signature # jwtSecret
    THEN [erreur |-> "JsonWebTokenError", decoded |-> Null]
    ELSE [erreur |-> "", decoded |-> jeton]

\* jwt.verify(token, jwtSecret): the signature is checked before the expiry
JwtVerify(jeton) ==
    IF jeton = Null \/ jeton[1].signature # jwtSecret
    THEN [erreur |-> "JsonWebTokenError", decoded |-> Null]
    ELSE IF horloge >= jeton[1].exp
    THEN [erreur |-> "TokenExpiredError", decoded |-> Null]
    ELSE [erreur |-> "", decoded |-> jeton]

\* What the middleware answers (statut 401) or passes on (statut 0: next() is
\* called with req.utilisateur set)
AuthMiddleware(entete) ==
    IF entete = Null \/ entete.schema # "Bearer"
    THEN [statut |-> 401, erreur |-> MsgJetonManquant, utilisateur |-> Null]
    ELSE LET verifie == JwtVerify(entete.jeton) IN
         IF verifie.erreur = "TokenExpiredError"
         THEN [statut |-> 401, erreur |-> MsgJetonExpire, utilisateur |-> Null]
         ELSE IF verifie.erreur = "JsonWebTokenError"
         THEN [statut |-> 401, erreur |-> MsgJetonInvalide, utilisateur |-> Null]
         ELSE [statut |-> 0, erreur |-> "",
               utilisateur |-> <<[id |-> verifie.decoded[1].id,
                                  email |-> verifie.decoded[1].email]>>]

\* The middleware calls next(): the handler of the route runs
Passe(entete) == AuthMiddleware(entete).statut = 0

\* req.utilisateur.id, for which the handler runs
Demandeur(entete) == AuthMiddleware(entete).utilisateur[1].id

\* The middleware answers the request to the route op: the handler does not run
Refuser(entete, op) ==
    LET auth == AuthMiddleware(entete) IN
    /\ ~Passe(entete)
    /\ enCours = Aucun
    /\ requete' = [op |-> op, utilisateur |-> 0]
    /\ reponse' = Erreur(op, auth.statut, auth.erreur)
    /\ UNCHANGED <<utilisateurs, mauvaisDeSuite, jetons, client, enVol>>
    /\ UNCHANGED varsTaches

\* Time passes between two requests
Attendre(heures) ==
    /\ enCours = Aucun
    /\ horloge' = horloge + heures
    /\ UNCHANGED <<utilisateurs, mauvaisDeSuite, jetons, client, enVol, listes, taches, historique, nbListes,
                   nbTaches, enCours, requete, reponse, changements>>

----------------------------------------------------------------------------
(* The web client: context/AuthContext, components/EcranConnexion and App.  A
   submission of the form is one step: the validation of the fields, the call
   of the API and what the client does with the answer. *)

varsServeur == <<utilisateurs, listes, taches, historique, nbListes, nbTaches, horloge,
                 enCours, requete, reponse, mauvaisDeSuite, changements, jetons, enVol>>

\* estConnecte: !!token
EstConnecte(c) == c.token # Null

\* App: estConnecte ? <EcranTaches /> : <EcranConnexion />
Ecran(c) == IF EstConnecte(c) THEN "EcranTaches" ELSE "EcranConnexion"

MotDePasseMinClient == 6

MsgInscriptionReussie == "Inscription reussie ! Vous pouvez maintenant vous connecter."

\* email.includes('@')
InclutArobase(email) == email # "pas-un-email"

\* validerFormulaire: the local error, or Null when the form is valid; the display
\* name typed is NomAffichage
ValiderFormulaire(email, motDePasse) ==
    IF email = "" \/ ~InclutArobase(email)
    THEN <<"Veuillez saisir un email valide.">>
    ELSE IF motDePasse = "" \/ Len(motDePasse) < MotDePasseMinClient
    THEN <<"Le mot de passe doit contenir au moins 6 caracteres.">>
    ELSE Null

\* inscription: the token and the user of the client are left as they are
Inscription(email, motDePasse) ==
    /\ Register(email, motDePasse)
    /\ client' =
          IF reponse'.statut = 201
          THEN [client EXCEPT !.erreur = Null, !.erreurLocale = Null,
                              !.messageSucces = <<MsgInscriptionReussie>>,
                              !.modeInscription = FALSE]
          ELSE [client EXCEPT !.erreur = <<reponse'.erreur>>, !.erreurLocale = Null,
                              !.messageSucces = Null]

\* connexion: on 200 the token is stored and App replaces the login screen; on 401
\* the interceptor of authService clears the storage and reloads the page
Connexion(email, motDePasse) ==
    /\ Login(email, motDePasse)
    /\ client' =
          IF reponse'.statut = 200
          THEN [ClientInitial EXCEPT !.token = <<reponse'.data[1].token>>,
                                     !.utilisateur = <<reponse'.data[1].utilisateur>>]
          ELSE IF reponse'.statut = 401
          THEN ClientInitial
          ELSE [client EXCEPT !.erreur = <<reponse'.erreur>>, !.erreurLocale = Null,
                              !.messageSucces = Null]

GererSoumission(email, motDePasse) ==
    /\ Ecran(client) = "EcranConnexion"
    /\ IF ValiderFormulaire(email, motDePasse) # Null
       THEN /\ client' = [client EXCEPT !.erreur = Null, !.messageSucces = Null,
                                        !.erreurLocale = ValiderFormulaire(email, motDePasse)]
            /\ UNCHANGED varsServeur
       ELSE IF client.modeInscription
       THEN Inscription(email, motDePasse)
       ELSE Connexion(email, motDePasse)

BasculerMode ==
    /\ Ecran(client) = "EcranConnexion"
    /\ client' = [client EXCEPT !.modeInscription = ~@, !.erreur = Null,
                                !.erreurLocale = Null, !.messageSucces = Null]
    /\ UNCHANGED varsServeur

\* deconnexion, from the task screen
Deconnexion ==
    /\ Ecran(client) = "EcranTaches"
    /\ client' = ClientInitial
    /\ UNCHANGED varsServeur

----------------------------------------------------------------------------
(* controllers/authController: login, one step per await.  A request in flight
   is a record of enVol: its position pc, what it has read and, once it is
   answered, its response. *)

Avancer(r, champs) == [enVol EXCEPT ![r] = Fusion(@, champs)]

\* trouverParEmail, then the lock test on the row read
LoginLire(emailBrut, motDePasse) ==
    LET trouves == TrouverParEmail(NormalizeEmail(emailBrut))
        id == IF trouves = {} THEN 0 ELSE CHOOSE i \in trouves : TRUE
        recue == [op |-> "login", mot_de_passe |-> motDePasse, id |-> id,
                  lu |-> IF id = 0 THEN Null ELSE <<utilisateurs[id]>>]
    IN
    /\ enVol' = Append(enVol,
          IF ~LoginValide(emailBrut, motDePasse)
          THEN Fusion(recue, [pc |-> "fini", reponse |-> Erreur("login", 400, "validation")])
          ELSE IF id = 0
          THEN Fusion(recue, [pc |-> "fini", reponse |-> Erreur("login", 401, MsgIdentifiants)])
          ELSE IF Verrouille(utilisateurs[id])
          THEN Fusion(recue, [pc |-> "fini", reponse |-> Erreur("login", 423, MsgVerrouille)])
          ELSE Fusion(recue, [pc |-> "lu", reponse |-> Aucun]))
    /\ UNCHANGED <<utilisateurs, mauvaisDeSuite, jetons, client>>
    /\ UNCHANGED <<requete, reponse>>
    /\ UNCHANGED varsTaches

\* bcrypt.compare against the hash of the row read
LoginComparer(r) ==
    /\ enVol[r].op = "login"
    /\ enVol[r].pc = "lu"
    /\ enVol' = Avancer(r, [pc |-> IF BcryptCompare(enVol[r].mot_de_passe,
                                                    enVol[r].lu[1].mot_de_passe_hash)
                                   THEN "valide" ELSE "invalide"])
    /\ UNCHANGED <<utilisateurs, mauvaisDeSuite, jetons, client>>
    /\ UNCHANGED <<requete, reponse>>
    /\ UNCHANGED varsTaches

\* incrementerTentativesEchec: UPDATE ... SET tentatives_echec = tentatives_echec + 1
LoginIncrementer(r) ==
    /\ enVol[r].op = "login"
    /\ enVol[r].pc = "invalide"
    /\ utilisateurs' = IncrementerTentativesEchec(enVol[r].id)
    /\ mauvaisDeSuite' = [mauvaisDeSuite EXCEPT ![enVol[r].id] = Compter(@)]
    /\ enVol' = Avancer(r, [pc |-> "incremente"])
    /\ UNCHANGED <<jetons, client>>
    /\ UNCHANGED <<requete, reponse>>
    /\ UNCHANGED varsTaches

\* utilisateur.reload(), then the lock test on the row reloaded
LoginRecharger(r) ==
    /\ enVol[r].op = "login"
    /\ enVol[r].pc = "incremente"
    /\ enVol' = Avancer(r, [pc |-> "fini",
                            lu |-> <<utilisateurs[enVol[r].id]>>,
                            reponse |-> IF Verrouille(utilisateurs[enVol[r].id])
                                        THEN Erreur("login", 423, MsgVerrouille)
                                        ELSE Erreur("login", 401, MsgIdentifiants)])
    /\ UNCHANGED <<utilisateurs, mauvaisDeSuite, jetons, client>>
    /\ UNCHANGED <<requete, reponse>>
    /\ UNCHANGED varsTaches

\* reinitialiserTentativesEchec, then jwt.sign and the answer
LoginReinitialiser(r) ==
    /\ enVol[r].op = "login"
    /\ enVol[r].pc = "valide"
    /\ utilisateurs' = ReinitialiserTentativesEchec(enVol[r].id)
    /\ mauvaisDeSuite' = [mauvaisDeSuite EXCEPT ![enVol[r].id] = 0]
    /\ jetons' = jetons \cup {JwtSign(enVol[r].id)}
    /\ enVol' = Avancer(r, [pc |-> "fini",
                            reponse |-> Succes("login", 200,
                                [token |-> JwtSign(enVol[r].id),
                                 utilisateur |->
                                    [id |-> enVol[r].id,
                                     email |-> enVol[r].lu[1].email,
                                     nom_affichage |-> enVol[r].lu[1].nom_affichage]])])
    /\ UNCHANGED client
    /\ UNCHANGED <<requete, reponse>>
    /\ UNCHANGED varsTaches

----------------------------------------------------------------------------
(* controllers/authController: register, one step per await.  The column email
   of utilisateurs is unique: an insert of an email already present throws, and
   the catch block answers 500. *)

\* The validation, then trouverParEmail and the test on its result
RegisterChercher(emailBrut, motDePasse) ==
    LET email == NormalizeEmail(emailBrut)
        recue == [op |-> "register", email |-> email, mot_de_passe |-> motDePasse,
                  existant |-> TrouverParEmail(email)]
    IN
    /\ enVol' = Append(enVol,
          IF ~RegisterValide(emailBrut, motDePasse)
          THEN Fusion(recue, [pc |-> "fini", existant |-> {},
                              reponse |-> Erreur("register", 400, "validation")])
          ELSE IF TrouverParEmail(email) # {}
          THEN Fusion(recue, [pc |-> "fini",
                              reponse |-> Erreur("register", 400, MsgEmailExiste)])
          ELSE Fusion(recue, [pc |-> "cherche", reponse |-> Aucun]))
    /\ UNCHANGED <<utilisateurs, mauvaisDeSuite, jetons, client>>
    /\ UNCHANGED <<requete, reponse>>
    /\ UNCHANGED varsTaches

\* bcrypt.hash
RegisterHacher(r) ==
    /\ enVol[r].op = "register"
    /\ enVol[r].pc = "cherche"
    /\ enVol' = Avancer(r, [pc |-> "hache"])
    /\ UNCHANGED <<utilisateurs, mauvaisDeSuite, jetons, client>>
    /\ UNCHANGED <<requete, reponse>>
    /\ UNCHANGED varsTaches

\* utilisateurRepository.creer
RegisterCreer(r) ==
    LET email == enVol[r].email
        id == Cardinality(DOMAIN utilisateurs) + 1
    IN
    /\ enVol[r].op = "register"
    /\ enVol[r].pc = "hache"
    /\ IF TrouverParEmail(email) # {}
       THEN /\ enVol' = Avancer(r, [pc |-> "fini",
                                    reponse |-> Erreur("register", 500, MsgErreurInterne)])
            /\ UNCHANGED <<utilisateurs, mauvaisDeSuite>>
       ELSE /\ utilisateurs' = UtilisateurCreer(email, BcryptHash(enVol[r].mot_de_passe))
            /\ mauvaisDeSuite' = [i \in DOMAIN utilisateurs \cup {id} |->
                                     IF i = id THEN 0 ELSE mauvaisDeSuite[i]]
            /\ enVol' = Avancer(r, [pc |-> "fini",
                                    reponse |-> Succes("register", 201,
                                        [id |-> id, email |-> email,
                                         nom_affichage |-> NomAffichage])])
    /\ UNCHANGED <<jetons, client>>
    /\ UNCHANGED <<requete, reponse>>
    /\ UNCHANGED varsTaches

----------------------------------------------------------------------------
(* controllers/taskController: modifierTache and creerTache, one step per
   await.  The foreign keys of taches and historique_modifications are enforced
   by the database: a statement that would break one throws, and the catch block
   answers 500. *)

\* trouverParId and the ownership test on the row read
ModifierTacheLire(u, id, corpsBrut) ==
    LET corps == Assainir(corpsBrut)
        recue == [op |-> "modifierTache", utilisateur |-> u, id |-> id, corps |-> corps,
                  lu |-> Null]
    IN
    /\ enVol' = Append(enVol,
          IF ~ModificationValide(corpsBrut)
          THEN Fusion(recue, [pc |-> "fini",
                              reponse |-> Erreur("modifierTache", 400, "validation")])
          ELSE IF TrouverParId(id) = Null
          THEN Fusion(recue, [pc |-> "fini",
                              reponse |-> Erreur("modifierTache", 404, MsgTacheNonTrouvee)])
          ELSE IF ~Proprietaire(TrouverParId(id)[1], u)
          THEN Fusion(recue, [pc |-> "fini",
                              reponse |-> Erreur("modifierTache", 403, MsgTacheInterdite)])
          ELSE Fusion(recue, [pc |-> IF ValeurOuNull(corps, "liste_id") # Null
                                     THEN "lue" ELSE "verifiee",
                              lu |-> <<taches[id]>>, reponse |-> Aucun]))
    /\ UNCHANGED <<utilisateurs, mauvaisDeSuite, jetons, client>>
    /\ UNCHANGED <<requete, reponse>>
    /\ UNCHANGED varsTaches

\* listeRepository.trouverParId and the test on the list, when the body names one
ModifierTacheVerifier(r) ==
    /\ enVol[r].op = "modifierTache"
    /\ enVol[r].pc = "lue"
    /\ enVol' = Avancer(r,
          IF ListeRefusee(enVol[r].corps.liste_id[1], enVol[r].utilisateur)
          THEN [pc |-> "fini", reponse |-> Erreur("modifierTache", 403, MsgListeRefusee)]
          ELSE [pc |-> "verifiee"])
    /\ UNCHANGED <<utilisateurs, mauvaisDeSuite, jetons, client>>
    /\ UNCHANGED <<requete, reponse>>
    /\ UNCHANGED varsTaches

\* enregistrerHistorique, with the status of the row read
ModifierTacheHistoriser(r) ==
    /\ enVol[r].op = "modifierTache"
    /\ enVol[r].pc = "verifiee"
    /\ StatutChange(enVol[r].corps, enVol[r].lu[1])
    /\ IF enVol[r].id \in DOMAIN taches
       THEN /\ historique' = EnregistrerHistorique(enVol[r].id, enVol[r].lu[1].statut,
                                                   enVol[r].corps.statut)
            /\ enVol' = Avancer(r, [pc |-> "historisee"])
       ELSE /\ enVol' = Avancer(r, [pc |-> "fini",
                                    reponse |-> Erreur("modifierTache", 500, MsgErreurInterne)])
            /\ UNCHANGED historique
    /\ UNCHANGED <<utilisateurs, mauvaisDeSuite, jetons, client>>
    /\ UNCHANGED <<requete, reponse>>
    /\ UNCHANGED <<listes, taches, nbListes, nbTaches, horloge, enCours, changements>>

\* mettreAJour with donneesMAJ, which was computed from the row read
ModifierTacheEcrire(r) ==
    LET id == enVol[r].id
        donnees == DonneesMAJ(enVol[r].corps, enVol[r].lu[1])
    IN
    /\ enVol[r].op = "modifierTache"
    /\ \/ enVol[r].pc = "historisee"
       \/ enVol[r].pc = "verifiee" /\ ~StatutChange(enVol[r].corps, enVol[r].lu[1])
    /\ IF id \notin DOMAIN taches
       THEN /\ enVol' = Avancer(r, [pc |-> "fini",
                                    reponse |-> Succes("modifierTache", 200, Null)])
            /\ UNCHANGED taches
       ELSE IF ValeurOuNull(donnees, "liste_id") # Null
               /\ donnees.liste_id[1] \notin DOMAIN listes
       THEN /\ enVol' = Avancer(r, [pc |-> "fini",
                                    reponse |-> Erreur("modifierTache", 500, MsgErreurInterne)])
            /\ UNCHANGED taches
       ELSE /\ taches' = MettreAJour(id, donnees)
            /\ enVol' = Avancer(r, [pc |-> "fini",
                                    reponse |-> Succes("modifierTache", 200,
                                        Vue([taches |-> taches', listes |-> listes], id))])
    /\ changements' = StatutsChanges(taches, taches')
    /\ UNCHANGED <<utilisateurs, mauvaisDeSuite, jetons, client>>
    /\ UNCHANGED <<requete, reponse>>
    /\ UNCHANGED <<listes, historique, nbListes, nbTaches, horloge, enCours>>

\* The validation, then listeRepository.trouverParId and the test on the list
CreerTacheVerifier(u, corpsBrut) ==
    LET corps == Assainir(corpsBrut)
        recue == [op |-> "creerTache", utilisateur |-> u, corps |-> corps]
    IN
    /\ enVol' = Append(enVol,
          IF ~CreationValide(corpsBrut)
          THEN Fusion(recue, [pc |-> "fini",
                              reponse |-> Erreur("creerTache", 400, "validation")])
          ELSE IF ValeurOuNull(corps, "liste_id") # Null
                  /\ ListeRefusee(corps.liste_id[1], u)
          THEN Fusion(recue, [pc |-> "fini",
                              reponse |-> Erreur("creerTache", 403, MsgListeRefusee)])
          ELSE Fusion(recue, [pc |-> "verifiee", reponse |-> Aucun]))
    /\ UNCHANGED <<utilisateurs, mauvaisDeSuite, jetons, client>>
    /\ UNCHANGED <<requete, reponse>>
    /\ UNCHANGED varsTaches

\* tacheRepository.creer, then the row read back for the answer
CreerTacheEcrire(r) ==
    LET corps == enVol[r].corps
        id == nbTaches + 1
    IN
    /\ enVol[r].op = "creerTache"
    /\ enVol[r].pc = "verifiee"
    /\ IF ValeurOuNull(corps, "liste_id") # Null /\ corps.liste_id[1] \notin DOMAIN listes
       THEN /\ enVol' = Avancer(r, [pc |-> "fini",
                                    reponse |-> Erreur("creerTache", 500, MsgErreurInterne)])
            /\ UNCHANGED <<taches, nbTaches, horloge>>
       ELSE /\ taches' = TacheCreer(id,
                            [titre |-> corps.titre,
                             description |-> TexteOuNull(corps, "description"),
                             priorite |-> IF "priorite" \in DOMAIN corps
                                          THEN corps.priorite ELSE "MOYENNE",
                             date_echeance |-> ValeurOuNull(corps, "date_echeance"),
                             liste_id |-> ValeurOuNull(corps, "liste_id"),
                             statut |-> "A_FAIRE",
                             utilisateur_id |-> enVol[r].utilisateur])
            /\ nbTaches' = id
            /\ horloge' = horloge + 1
            /\ enVol' = Avancer(r, [pc |-> "fini",
                                    reponse |-> Succes("creerTache", 201,
                                        Vue([taches |-> taches', listes |-> listes], id))])
    /\ changements' = StatutsChanges(taches, taches')
    /\ UNCHANGED <<utilisateurs, mauvaisDeSuite, jetons, client>>
    /\ UNCHANGED <<requete, reponse>>
    /\ UNCHANGED <<listes, historique, nbListes, enCours>>

----------------------------------------------------------------------------
(* The task service: requests handled one at a time for two registered users *)

Titre(t) == CASE t = "abc" -> <<"a", "b", "c">>
              [] t = " abc " -> <<" ", "a", "b", "c", " ">>
              [] t = "xyz" -> <<"x", "y", "z">>
              [] t = " xyz " -> <<" ", "x", "y", "z", " ">>
              [] t = "ab" -> <<"a", "b">>

InitTaches ==
    /\ utilisateurs =
          <<[email |-> "a@x.com", nom_affichage |-> NomAffichage,
             mot_de_passe_hash |-> BcryptHash("secret1"), actif |-> TRUE,
             tentatives_echec |-> 0],
            [email |-> "b@x.com", nom_affichage |-> NomAffichage,
             mot_de_passe_hash |-> BcryptHash("secret2"), actif |-> TRUE,
             tentatives_echec |-> 0]>>
    /\ mauvaisDeSuite = <<0, 0>>
    /\ listes = <<>>
    /\ taches = <<>>
    /\ historique = <<>>
    /\ nbListes = 0
    /\ nbTaches = 0
    /\ horloge = 0
    /\ enCours = Aucun
    /\ requete = Aucun
    /\ reponse = Aucun
    /\ jetons = {}
    /\ client = ClientInitial
    /\ enVol = <<>>
    /\ changements = <<>>

Demandeurs == DOMAIN utilisateurs

(* Status changes: tasks created, updated and deleted, no list *)

MaxTachesStatut == 1

MaxHistorique == 3

TacheIdsStatut == 1..(MaxTachesStatut + 1)

CorpsCreationStatut == {[titre |-> Titre("abc")], [titre |-> Titre("ab")]}

CorpsModificationStatut == {[statut |-> s] : s \in Statuts} \cup {[titre |-> Titre("xyz")]}

NextStatut ==
    \/ \E u \in Demandeurs, corps \in CorpsCreationStatut :
          nbTaches < MaxTachesStatut /\ CreerTache(u, corps)
    \/ \E u \in Demandeurs, id \in TacheIdsStatut, corps \in CorpsModificationStatut :
          Len(historique) < MaxHistorique /\ ModifierTache(u, id, corps)
    \/ ModifierTacheFin
    \/ \E u \in Demandeurs, id \in TacheIdsStatut : SupprimerTache(u, id)

SpecStatut == InitTaches /\ [][NextStatut]_vars

(* Tasks: created, read, updated and deleted by both users, with their lists *)

MaxTaches == 1

MaxListes == 1

MaxChangements == 1

TacheIds == 1..(MaxTaches + 1)

ListeIds == 1..(MaxListes + 1)

CorpsCreation ==
    {[titre |-> Titre("abc")], [titre |-> Titre("ab")]}
    \cup {[titre |-> Titre("abc"), liste_id |-> <<l>>] : l \in ListeIds}

CorpsModification ==
    {[statut |-> "TERMINEE"], [liste_id |-> Null], [titre |-> Titre("ab")]}
    \cup {[liste_id |-> <<l>>, statut |-> "TERMINEE"] : l \in ListeIds}

CorpsListe == {[nom |-> "Work"], [nom |-> ""]}

NextTaches ==
    \/ \E u \in Demandeurs, corps \in CorpsCreation :
          nbTaches < MaxTaches /\ CreerTache(u, corps)
    \/ \E u \in Demandeurs, id \in TacheIds : DetailTache(u, id)
    \/ \E u \in Demandeurs, id \in TacheIds, corps \in CorpsModification :
          Len(historique) < MaxChangements /\ ModifierTache(u, id, corps)
    \/ ModifierTacheFin
    \/ \E u \in Demandeurs, id \in TacheIds : SupprimerTache(u, id)
    \/ \E u \in Demandeurs, corps \in CorpsListe :
          nbListes < MaxListes /\ CreerListe(u, corps)

SpecTaches == InitTaches /\ [][NextTaches]_vars

(* Ownership: every handler that writes, on the tasks and lists of both users *)

MaxTachesProprietaires == 1

MaxListesProprietaires == 1

MaxChangementsProprietaires == 1

TacheIdsProprietaires == 1..(MaxTachesProprietaires + 1)

ListeIdsProprietaires == 1..(MaxListesProprietaires + 1)

CorpsCreationProprietaires ==
    {[titre |-> Titre("abc")]}
    \cup {[titre |-> Titre("abc"), liste_id |-> <<l>>] : l \in ListeIdsProprietaires}

CorpsModificationProprietaires == {[statut |-> "TERMINEE"], [titre |-> Titre("ab")]}

CorpsListeModification == {[nom |-> "Home"], [nom |-> ""]}

NextProprietaires ==
    \/ \E u \in Demandeurs, corps \in CorpsCreationProprietaires :
          nbTaches < MaxTachesProprietaires /\ CreerTache(u, corps)
    \/ \E u \in Demandeurs, id \in TacheIdsProprietaires,
           corps \in CorpsModificationProprietaires :
          Len(historique) < MaxChangementsProprietaires /\ ModifierTache(u, id, corps)
    \/ ModifierTacheFin
    \/ \E u \in Demandeurs, id \in TacheIdsProprietaires : SupprimerTache(u, id)
    \/ \E u \in Demandeurs :
          nbListes < MaxListesProprietaires /\ CreerListe(u, [nom |-> "Work"])
    \/ \E u \in Demandeurs, id \in ListeIdsProprietaires, corps \in CorpsListeModification :
          ModifierListe(u, id, corps)
    \/ \E u \in Demandeurs, id \in ListeIdsProprietaires : SupprimerListe(u, id)
    \/ SupprimerListeFin

SpecProprietaires == InitTaches /\ [][NextProprietaires]_vars

(* List deletion: the tasks of one user spread over her lists *)

MaxTachesListes == 2

MaxListesListes == 2

ListeIdsListes == 1..(MaxListesListes + 1)

CorpsCreationListes ==
    {[titre |-> Titre("abc")]}
    \cup {[titre |-> Titre("xyz"), liste_id |-> <<l>>] : l \in ListeIdsListes}

NextListes ==
    \/ \E corps \in CorpsCreationListes :
          nbTaches < MaxTachesListes /\ CreerTache(1, corps)
    \/ nbListes < MaxListesListes /\ CreerListe(1, [nom |-> "Work"])
    \/ \E u \in Demandeurs, id \in ListeIdsListes : SupprimerListe(u, id)
    \/ SupprimerListeFin

SpecListes == InitTaches /\ [][NextListes]_vars

(* Field values: tasks created from bodies carrying every field, then read *)

MaxTachesChamps == 1

MaxListesChamps == 1

TacheIdsChamps == 1..(MaxTachesChamps + 1)

ListeIdsChamps == 1..(MaxListesChamps + 1)

CorpsCreationChamps ==
    {[titre |-> Titre(" abc "), description |-> <<"d">>, priorite |-> "HAUTE",
      date_echeance |-> <<20>>, statut |-> "TERMINEE", date_completion |-> <<1>>],
     [titre |-> Titre("abc"), description |-> <<"">>, liste_id |-> Null],
     [titre |-> Titre("abc"), description |-> Null, date_echeance |-> Null],
     [titre |-> Titre("ab"), priorite |-> "BASSE"]}
    \cup {[titre |-> Titre("xyz"), priorite |-> "BASSE", liste_id |-> <<l>>] :
              l \in ListeIdsChamps}

NextChamps ==
    \/ \E u \in Demandeurs, corps \in CorpsCreationChamps :
          nbTaches < MaxTachesChamps /\ CreerTache(u, corps)
    \/ \E u \in Demandeurs, id \in TacheIdsChamps : DetailTache(u, id)
    \/ \E u \in Demandeurs, corps \in CorpsListe :
          nbListes < MaxListesChamps /\ CreerListe(u, corps)

SpecChamps == InitTaches /\ [][NextChamps]_vars

(* Partial updates: a task of each user, updated field by field *)

MaxChangementsPartiel == 1

\* The database after the first user has created a list and a task in it, and
\* the second user a task
InitPartiel ==
    /\ utilisateurs =
          <<[email |-> "a@x.com", nom_affichage |-> NomAffichage,
             mot_de_passe_hash |-> BcryptHash("secret1"), actif |-> TRUE,
             tentatives_echec |-> 0],
            [email |-> "b@x.com", nom_affichage |-> NomAffichage,
             mot_de_passe_hash |-> BcryptHash("secret2"), actif |-> TRUE,
             tentatives_echec |-> 0]>>
    /\ mauvaisDeSuite = <<0, 0>>
    /\ listes = <<[nom |-> "Work", couleur |-> CouleurDefaut, ordre |-> 0,
                   utilisateur_id |-> 1]>>
    /\ taches =
          <<[titre |-> Titre("abc"), description |-> <<"d">>, priorite |-> "HAUTE",
             date_echeance |-> <<20>>, liste_id |-> <<1>>, statut |-> "A_FAIRE",
             utilisateur_id |-> 1, date_creation |-> 1, date_completion |-> Null],
            [titre |-> Titre("abc"), description |-> Null, priorite |-> "MOYENNE",
             date_echeance |-> Null, liste_id |-> Null, statut |-> "A_FAIRE",
             utilisateur_id |-> 2, date_creation |-> 2, date_completion |-> Null]>>
    /\ historique = <<>>
    /\ nbListes = Len(listes)
    /\ nbTaches = Len(taches)
    /\ horloge = Len(taches)
    /\ changements = [id \in DOMAIN taches |-> 0]
    /\ enCours = Aucun
    /\ requete = Aucun
    /\ reponse = Aucun
    /\ jetons = {}
    /\ client = ClientInitial
    /\ enVol = <<>>

TacheIdsPartiel == 1..3

CorpsModificationPartiel ==
    {<<>>,
     [titre |-> Titre(" xyz ")],
     [description |-> Null],
     [priorite |-> "BASSE", date_echeance |-> <<30>>],
     [statut |-> "TERMINEE"],
     [statut |-> "A_FAIRE", description |-> <<"e">>],
     [liste_id |-> Null],
     [liste_id |-> <<1>>],
     [titre |-> Titre("xyz"), utilisateur_id |-> 2, date_creation |-> 9]}

NextPartiel ==
    \/ \E u \in Demandeurs, id \in TacheIdsPartiel, corps \in CorpsModificationPartiel :
          Len(historique) < MaxChangementsPartiel /\ ModifierTache(u, id, corps)
    \/ ModifierTacheFin

SpecPartiel == InitPartiel /\ [][NextPartiel]_vars

----------------------------------------------------------------------------
(* Sessions: logins, password changes and profile reads of the first user while
   time passes *)

MaxJetons == 2

MaxAttentes == 3

DemiDuree == jwtExpiration \div 2

EntetesSession == {Null} \cup {Bearer(jeton) : jeton \in jetons}

AnciensMotsDePasse == {"secret1", "secret2", ""}

NouveauxMotsDePasse == {"secret1", "secret2", "court"}

NextSession ==
    \/ /\ Cardinality(jetons) < MaxJetons
       /\ \E motDePasse \in {"secret1", "secret2"} : Login("a@x.com", motDePasse)
       /\ UNCHANGED client
    \/ \E entete \in EntetesSession, ancien \in AnciensMotsDePasse,
          nouveau \in NouveauxMotsDePasse :
          IF Passe(entete)
          THEN ChangePassword(Demandeur(entete), ancien, nouveau)
          ELSE Refuser(entete, "changePassword")
    \/ \E entete \in EntetesSession :
          IF Passe(entete) THEN GetProfil(Demandeur(entete)) ELSE Refuser(entete, "getProfil")
    \/ /\ horloge < MaxAttentes * DemiDuree
       /\ Attendre(DemiDuree)

SpecSession == InitTaches /\ [][NextSession]_vars

(* Protected routes: every route behind the middleware, called with every kind of
   Authorization header while time passes, once both users have logged in *)

MaxJetonsGarde == 3

MaxAttentesGarde == 3

MaxChangementsGarde == 1

InitGarde ==
    /\ utilisateurs =
          <<[email |-> "a@x.com", nom_affichage |-> NomAffichage,
             mot_de_passe_hash |-> BcryptHash("secret1"), actif |-> TRUE,
             tentatives_echec |-> 0],
            [email |-> "b@x.com", nom_affichage |-> NomAffichage,
             mot_de_passe_hash |-> BcryptHash("secret2"), actif |-> TRUE,
             tentatives_echec |-> 0]>>
    /\ mauvaisDeSuite = <<0, 0>>
    /\ listes = <<[nom |-> "Work", couleur |-> CouleurDefaut, ordre |-> 0,
                   utilisateur_id |-> 1]>>
    /\ taches =
          <<[titre |-> Titre("abc"), description |-> Null, priorite |-> "MOYENNE",
             date_echeance |-> Null, liste_id |-> <<1>>, statut |-> "A_FAIRE",
             utilisateur_id |-> 1, date_creation |-> 1, date_completion |-> Null]>>
    /\ historique = <<>>
    /\ nbListes = Len(listes)
    /\ nbTaches = Len(taches)
    /\ horloge = Len(taches)
    /\ changements = [id \in DOMAIN taches |-> 0]
    /\ enCours = Aucun
    /\ requete = Aucun
    /\ reponse = Aucun
    /\ jetons = {JwtSign(id) : id \in DOMAIN utilisateurs}
    /\ client = ClientInitial
    /\ enVol = <<>>

\* A token for the user id signed with another secret
JetonMalSigne(id) ==
    [id |-> id, email |-> utilisateurs[id].email, iat |-> horloge,
     exp |-> horloge + jwtExpiration, signature |-> "autre"]

EntetesGarde ==
    {Null, Entete("Basic", Null), Entete("Bearer", Null)}
    \cup {Bearer(jeton) : jeton \in jetons}
    \cup {Bearer(JetonMalSigne(id)) : id \in DOMAIN utilisateurs}

OpsGarde == {"getProfil", "detailTache", "modifierTache", "supprimerTache", "modifierListe",
             "supprimerListe"}

\* A route of /api/profil, /api/taches or /api/listes called with the header
Route(entete, op) ==
    IF ~Passe(entete)
    THEN Refuser(entete, op)
    ELSE LET u == Demandeur(entete) IN
         CASE op = "getProfil" -> GetProfil(u)
           [] op = "detailTache" -> DetailTache(u, 1)
           [] op = "modifierTache" ->
                 /\ Len(historique) < MaxChangementsGarde
                 /\ ModifierTache(u, 1, [statut |-> "TERMINEE"])
           [] op = "supprimerTache" -> SupprimerTache(u, 1)
           [] op = "modifierListe" -> ModifierListe(u, 1, [nom |-> "Home"])
           [] op = "supprimerListe" -> SupprimerListe(u, 1)

NextGarde ==
    \/ /\ Cardinality(jetons) < MaxJetonsGarde
       /\ Login("a@x.com", "secret1")
       /\ UNCHANGED client
    \/ \E entete \in EntetesGarde, op \in OpsGarde : Route(entete, op)
    \/ ModifierTacheFin
    \/ SupprimerListeFin
    \/ /\ horloge < MaxAttentesGarde * DemiDuree
       /\ Attendre(DemiDuree)

SpecGarde == InitGarde /\ [][NextGarde]_vars

(* Failures: a statement of a handler that writes twice throws *)

MaxChangementsEchecs == 2

CorpsModificationEchecs ==
    {[statut |-> "TERMINEE"], [statut |-> "EN_COURS"], [liste_id |-> <<1>>]}

NextEchecs ==
    \/ \E u \in Demandeurs, id \in DOMAIN taches, corps \in CorpsModificationEchecs :
          Len(historique) < MaxChangementsEchecs /\ ModifierTache(u, id, corps)
    \/ ModifierTacheFin
    \/ ModifierTacheEchec
    \/ \E u \in Demandeurs, id \in DOMAIN listes : SupprimerListe(u, id)
    \/ SupprimerListeFin
    \/ SupprimerListeEchec

SpecEchecs == InitPartiel /\ [][NextEchecs]_vars

(* Listing: both users create, update, delete and list tasks *)

MaxTachesListage == 3

MaxChangementsListage == 1

InitListage ==
    /\ utilisateurs =
          <<[email |-> "a@x.com", nom_affichage |-> NomAffichage,
             mot_de_passe_hash |-> BcryptHash("secret1"), actif |-> TRUE,
             tentatives_echec |-> 0],
            [email |-> "b@x.com", nom_affichage |-> NomAffichage,
             mot_de_passe_hash |-> BcryptHash("secret2"), actif |-> TRUE,
             tentatives_echec |-> 0]>>
    /\ mauvaisDeSuite = <<0, 0>>
    /\ listes = <<[nom |-> "Work", couleur |-> CouleurDefaut, ordre |-> 0,
                   utilisateur_id |-> 1]>>
    /\ taches =
          <<[titre |-> Titre("abc"), description |-> Null, priorite |-> "HAUTE",
             date_echeance |-> Null, liste_id |-> <<1>>, statut |-> "A_FAIRE",
             utilisateur_id |-> 1, date_creation |-> 1, date_completion |-> Null],
            [titre |-> Titre("abc"), description |-> Null, priorite |-> "HAUTE",
             date_echeance |-> Null, liste_id |-> Null, statut |-> "A_FAIRE",
             utilisateur_id |-> 2, date_creation |-> 2, date_completion |-> Null]>>
    /\ historique = <<>>
    /\ nbListes = Len(listes)
    /\ nbTaches = Len(taches)
    /\ horloge = Len(taches)
    /\ changements = [id \in DOMAIN taches |-> 0]
    /\ enCours = Aucun
    /\ requete = Aucun
    /\ reponse = Aucun
    /\ jetons = {}
    /\ client = ClientInitial
    /\ enVol = <<>>

FiltresStatut == {Null, <<"">>, <<"TERMINEE">>}

FiltresPriorite == {Null, <<"HAUTE">>}

FiltresListe == {Null, <<1>>}

RequetesListage ==
    [page : {Null}, limit : {Null}, statut : FiltresStatut,
     priorite : FiltresPriorite, liste_id : FiltresListe]
    \cup {[page |-> Nombre(2), limit |-> Nombre(1), statut |-> Null,
            priorite |-> <<"HAUTE">>, liste_id |-> Null]}

NextListage ==
    \/ \E u \in Demandeurs :
          nbTaches < MaxTachesListage /\ CreerTache(u, [titre |-> Titre("abc")])
    \/ \E u \in Demandeurs, id \in DOMAIN taches :
          /\ Len(historique) < MaxChangementsListage
          /\ ModifierTache(u, id, [statut |-> "TERMINEE"])
    \/ ModifierTacheFin
    \/ \E u \in Demandeurs, id \in DOMAIN taches : SupprimerTache(u, id)
    \/ \E u \in Demandeurs, query \in RequetesListage : ListerTaches(u, query)

SpecListage == InitListage /\ [][NextListage]_vars

(* Pages: the tasks of the first user, with and without a due date, listed page
   by page *)

MaxTachesPages == 3

MaxLimitePages == 2

Echeances == {Null, <<10>>, <<20>>}

InitPages ==
    /\ utilisateurs =
          <<[email |-> "a@x.com", nom_affichage |-> NomAffichage,
             mot_de_passe_hash |-> BcryptHash("secret1"), actif |-> TRUE,
             tentatives_echec |-> 0],
            [email |-> "b@x.com", nom_affichage |-> NomAffichage,
             mot_de_passe_hash |-> BcryptHash("secret2"), actif |-> TRUE,
             tentatives_echec |-> 0]>>
    /\ mauvaisDeSuite = <<0, 0>>
    /\ listes = <<>>
    /\ \E echeances \in [1..MaxTachesPages -> Echeances] :
          taches = [id \in 1..MaxTachesPages |->
                       [titre |-> Titre("abc"), description |-> Null,
                        priorite |-> "MOYENNE", date_echeance |-> echeances[id],
                        liste_id |-> Null, statut |-> "A_FAIRE", utilisateur_id |-> 1,
                        date_creation |-> id, date_completion |-> Null]]
    /\ historique = <<>>
    /\ nbListes = 0
    /\ nbTaches = MaxTachesPages
    /\ horloge = MaxTachesPages
    /\ changements = [id \in 1..MaxTachesPages |-> 0]
    /\ enCours = Aucun
    /\ requete = Aucun
    /\ reponse = Aucun
    /\ jetons = {}
    /\ client = ClientInitial
    /\ enVol = <<>>

NumerosDePage == {Null, PasUnNombre} \cup {Nombre(n) : n \in 0..(MaxTachesPages + 1)}

Limites == {Null, PasUnNombre} \cup {Nombre(n) : n \in 0..MaxLimitePages}

RequetesPages ==
    [page : NumerosDePage, limit : Limites, statut : {Null}, priorite : {Null},
     liste_id : {Null}]

NextPages ==
    \/ \E query \in RequetesPages : ListerTaches(1, query)
    \/ ListerTaches(2, [page |-> Null, limit |-> Null, statut |-> Null, priorite |-> Null,
                        liste_id |-> Null])
    \/ \E id \in DOMAIN taches, echeance \in Echeances :
          ModifierTache(1, id, [date_echeance |-> echeance])

SpecPages == InitPages /\ [][NextPages]_vars

(* The search: both users search while the first one creates and rewrites
   tasks *)

MaxTachesRecherche == 4

InitRecherche ==
    /\ utilisateurs =
          <<[email |-> "a@x.com", nom_affichage |-> NomAffichage,
             mot_de_passe_hash |-> BcryptHash("secret1"), actif |-> TRUE,
             tentatives_echec |-> 0],
            [email |-> "b@x.com", nom_affichage |-> NomAffichage,
             mot_de_passe_hash |-> BcryptHash("secret2"), actif |-> TRUE,
             tentatives_echec |-> 0]>>
    /\ mauvaisDeSuite = <<0, 0>>
    /\ listes = <<>>
    /\ taches =
          <<[titre |-> Titre("abc"), description |-> Null, priorite |-> "MOYENNE",
             date_echeance |-> Null, liste_id |-> Null, statut |-> "A_FAIRE",
             utilisateur_id |-> 1, date_creation |-> 1, date_completion |-> Null],
            [titre |-> Titre("xyz"), description |-> <<<<"x", "A", "b">>>>,
             priorite |-> "MOYENNE",
             date_echeance |-> Null, liste_id |-> Null, statut |-> "A_FAIRE",
             utilisateur_id |-> 1, date_creation |-> 2, date_completion |-> Null],
            [titre |-> Titre("abc"), description |-> Null, priorite |-> "MOYENNE",
             date_echeance |-> Null, liste_id |-> Null, statut |-> "A_FAIRE",
             utilisateur_id |-> 2, date_creation |-> 3, date_completion |-> Null]>>
    /\ historique = <<>>
    /\ nbListes = Len(listes)
    /\ nbTaches = Len(taches)
    /\ horloge = Len(taches)
    /\ changements = [id \in DOMAIN taches |-> 0]
    /\ enCours = Aucun
    /\ requete = Aucun
    /\ reponse = Aucun
    /\ jetons = {}
    /\ client = ClientInitial
    /\ enVol = <<>>

MotsCles ==
    {Null, <<<<>>>>, <<<<" ", " ">>>>, <<<<"b">>>>, <<<<"B", "C">>>>, <<<<" ", "y", " ">>>>,
     <<<<"a", "c">>>>, <<<<"_">>>>, <<<<"%">>>>, <<<<"a", "_", "c">>>>}

CorpsModificationRecherche ==
    {[titre |-> Titre("xyz")], [titre |-> Titre("abc")],
     [description |-> Null], [description |-> <<<<"B">>>>]}

NextRecherche ==
    \/ \E u \in Demandeurs, q \in MotsCles : Rechercher(u, q)
    \/ nbTaches < MaxTachesRecherche /\ CreerTache(1, [titre |-> Titre(" abc ")])
    \/ \E id \in 1..MaxTachesRecherche, corps \in CorpsModificationRecherche :
          ModifierTache(1, id, corps)

SpecRecherche == InitRecherche /\ [][NextRecherche]_vars

(* The status history: the first user creates tasks and changes their status,
   both users delete *)

MaxTachesHistorique == 2

MaxEntrees == 3

NextHistorique ==
    \/ nbTaches < MaxTachesHistorique /\ CreerTache(1, [titre |-> Titre("abc")])
    \/ \E id \in 1..MaxTachesHistorique, statut \in Statuts :
          Len(historique) < MaxEntrees /\ ModifierTache(1, id, [statut |-> statut])
    \/ ModifierTacheFin
    \/ \E u \in Demandeurs, id \in 1..MaxTachesHistorique : SupprimerTache(u, id)

SpecHistorique == InitTaches /\ [][NextHistorique]_vars

(* The lists and their counts: both users list their lists while the first one
   works on tasks and lists *)

MaxTachesCompte == 3

InitCompte ==
    /\ utilisateurs =
          <<[email |-> "a@x.com", nom_affichage |-> NomAffichage,
             mot_de_passe_hash |-> BcryptHash("secret1"), actif |-> TRUE,
             tentatives_echec |-> 0],
            [email |-> "b@x.com", nom_affichage |-> NomAffichage,
             mot_de_passe_hash |-> BcryptHash("secret2"), actif |-> TRUE,
             tentatives_echec |-> 0]>>
    /\ mauvaisDeSuite = <<0, 0>>
    /\ listes = <<[nom |-> "Work", couleur |-> CouleurDefaut, ordre |-> 0,
                   utilisateur_id |-> 1],
                  [nom |-> "Home", couleur |-> CouleurDefaut, ordre |-> 1,
                   utilisateur_id |-> 1],
                  [nom |-> "Home", couleur |-> CouleurDefaut, ordre |-> 0,
                   utilisateur_id |-> 2]>>
    /\ taches =
          <<[titre |-> Titre("abc"), description |-> Null, priorite |-> "MOYENNE",
             date_echeance |-> Null, liste_id |-> <<1>>, statut |-> "A_FAIRE",
             utilisateur_id |-> 1, date_creation |-> 1, date_completion |-> Null],
            [titre |-> Titre("abc"), description |-> Null, priorite |-> "MOYENNE",
             date_echeance |-> Null, liste_id |-> <<3>>, statut |-> "A_FAIRE",
             utilisateur_id |-> 2, date_creation |-> 2, date_completion |-> Null]>>
    /\ historique = <<>>
    /\ nbListes = Len(listes)
    /\ nbTaches = Len(taches)
    /\ horloge = Len(taches)
    /\ changements = [id \in DOMAIN taches |-> 0]
    /\ enCours = Aucun
    /\ requete = Aucun
    /\ reponse = Aucun
    /\ jetons = {}
    /\ client = ClientInitial
    /\ enVol = <<>>

ListesCompte == {Null, <<1>>, <<2>>}

CorpsListeCompte == {[ordre |-> 0], [ordre |-> 1], [nom |-> "Home"]}

NextCompte ==
    \/ \E u \in Demandeurs : ListerListes(u)
    \/ \E liste \in ListesCompte :
          nbTaches < MaxTachesCompte
              /\ CreerTache(1, [titre |-> Titre("abc"), liste_id |-> liste])
    \/ \E id \in 1..MaxTachesCompte, liste \in ListesCompte :
          ModifierTache(1, id, [liste_id |-> liste])
    \/ \E id \in 1..MaxTachesCompte : SupprimerTache(1, id)
    \/ \E id \in DOMAIN listes, corps \in CorpsListeCompte : ModifierListe(1, id, corps)
    \/ \E id \in DOMAIN listes : SupprimerListe(1, id)
    \/ SupprimerListeFin

SpecCompte == InitCompte /\ [][NextCompte]_vars

(* References: the tasks of both users put into lists, moved between lists and
   taken out of them, and the lists deleted *)

MaxTachesReferences == 2

MaxListesReferences == 2

TacheIdsReferences == 1..MaxTachesReferences

ListeIdsReferences == 1..(MaxListesReferences + 1)

CorpsReferences == {[liste_id |-> Null]} \cup {[liste_id |-> <<l>>] : l \in ListeIdsReferences}

NextReferences ==
    \/ \E u \in Demandeurs, corps \in CorpsReferences :
          nbTaches < MaxTachesReferences
             /\ CreerTache(u, Fusion([titre |-> Titre("abc")], corps))
    \/ \E u \in Demandeurs, id \in TacheIdsReferences, corps \in CorpsReferences :
          ModifierTache(u, id, corps)
    \/ \E u \in Demandeurs :
          nbListes < MaxListesReferences /\ CreerListe(u, [nom |-> "Work"])
    \/ \E u \in Demandeurs, id \in ListeIdsReferences : SupprimerListe(u, id)
    \/ SupprimerListeFin

SpecReferences == InitTaches /\ [][NextReferences]_vars

----------------------------------------------------------------------------
(* The authentication service started on an empty database *)

InitAuth ==
    /\ utilisateurs = <<>>
    /\ listes = <<>>
    /\ taches = <<>>
    /\ historique = <<>>
    /\ nbListes = 0
    /\ nbTaches = 0
    /\ horloge = 0
    /\ enCours = Aucun
    /\ requete = Aucun
    /\ reponse = Aucun
    /\ jetons = {}
    /\ client = ClientInitial
    /\ enVol = <<>>
    /\ changements = <<>>
    /\ mauvaisDeSuite = <<>>

NextAuth ==
    \E email \in Emails, motDePasse \in MotsDePasse :
        \/ Register(email, motDePasse) /\ UNCHANGED client
        \/ Login(email, motDePasse) /\ UNCHANGED client

SpecAuth == InitAuth /\ [][NextAuth]_vars

(* Concurrent logins on an account that two wrong passwords have brought to two
   failed attempts *)

MaxLogins == 3

InitLogins ==
    /\ utilisateurs =
          <<[email |-> "a@x.com", nom_affichage |-> NomAffichage,
             mot_de_passe_hash |-> BcryptHash("secret1"), actif |-> TRUE,
             tentatives_echec |-> maxLoginAttempts - 1]>>
    /\ mauvaisDeSuite = <<maxLoginAttempts - 1>>
    /\ listes = <<>>
    /\ taches = <<>>
    /\ historique = <<>>
    /\ nbListes = 0
    /\ nbTaches = 0
    /\ horloge = 0
    /\ enCours = Aucun
    /\ requete = Aucun
    /\ reponse = Aucun
    /\ jetons = {}
    /\ client = ClientInitial
    /\ enVol = <<>>
    /\ changements = <<>>

NextLogins ==
    \/ \E motDePasse \in {"secret1", "secret2"} :
          Len(enVol) < MaxLogins /\ LoginLire("a@x.com", motDePasse)
    \/ \E r \in DOMAIN enVol : LoginComparer(r)
    \/ \E r \in DOMAIN enVol : LoginIncrementer(r)
    \/ \E r \in DOMAIN enVol : LoginRecharger(r)
    \/ \E r \in DOMAIN enVol : LoginReinitialiser(r)

SpecLogins == InitLogins /\ [][NextLogins]_vars

(* Concurrent updates of the status of one task *)

MaxModifications == 2

InitModifications ==
    /\ utilisateurs =
          <<[email |-> "a@x.com", nom_affichage |-> NomAffichage,
             mot_de_passe_hash |-> BcryptHash("secret1"), actif |-> TRUE,
             tentatives_echec |-> 0]>>
    /\ mauvaisDeSuite = <<0>>
    /\ listes = <<>>
    /\ taches =
          <<[titre |-> Titre("abc"), description |-> Null, priorite |-> "MOYENNE",
             date_echeance |-> Null, liste_id |-> Null, statut |-> "A_FAIRE",
             utilisateur_id |-> 1, date_creation |-> 1, date_completion |-> Null]>>
    /\ historique = <<>>
    /\ nbListes = 0
    /\ nbTaches = Len(taches)
    /\ horloge = Len(taches)
    /\ changements = [id \in DOMAIN taches |-> 0]
    /\ enCours = Aucun
    /\ requete = Aucun
    /\ reponse = Aucun
    /\ jetons = {}
    /\ client = ClientInitial
    /\ enVol = <<>>

NextModifications ==
    \/ \E statut \in Statuts :
          Len(enVol) < MaxModifications /\ ModifierTacheLire(1, 1, [statut |-> statut])
    \/ \E r \in DOMAIN enVol : ModifierTacheHistoriser(r)
    \/ \E r \in DOMAIN enVol : ModifierTacheEcrire(r)

SpecModifications == InitModifications /\ [][NextModifications]_vars

(* A list deleted while tasks are created in it and moved to it *)

MaxAffectations == 2

NextAffectations ==
    \/ Len(enVol) < MaxAffectations
          /\ CreerTacheVerifier(1, [titre |-> Titre("abc"), liste_id |-> <<1>>])
    \/ \E r \in DOMAIN enVol : CreerTacheEcrire(r)
    \/ \E id \in DOMAIN taches :
          Len(enVol) < MaxAffectations /\ ModifierTacheLire(1, id, [liste_id |-> <<1>>])
    \/ \E r \in DOMAIN enVol : ModifierTacheVerifier(r)
    \/ \E r \in DOMAIN enVol : ModifierTacheEcrire(r)
    \/ SupprimerListe(1, 1)
    \/ SupprimerListeFin

SpecAffectations == InitPartiel /\ [][NextAffectations]_vars

(* Concurrent registrations on an empty database *)

MaxInscriptions == 2

NextInscriptions ==
    \/ \E email \in Emails, motDePasse \in {"secret1", "court"} :
          Len(enVol) < MaxInscriptions /\ RegisterChercher(email, motDePasse)
    \/ \E r \in DOMAIN enVol : RegisterHacher(r)
    \/ \E r \in DOMAIN enVol : RegisterCreer(r)

SpecInscriptions == InitAuth /\ [][NextInscriptions]_vars

(* The web client in front of the authentication service, started on an empty
   database *)

EmailsClient == {"a@x.com", "b@x.com", "pas-un-email"}

MotsDePasseClient == {"secret1", "secret2", "court"}

NextClient ==
    \/ \E email \in EmailsClient, motDePasse \in MotsDePasseClient :
          GererSoumission(email, motDePasse)
    \/ BasculerMode
    \/ Deconnexion

SpecClient == InitAuth /\ [][NextClient]_vars

----------------------------------------------------------------------------
(* Claims on the login lockout *)

\* A validated login request (emailBrut, motDePasse) that designates the user id
LoginPour(emailBrut, motDePasse, id) ==
    /\ Login(emailBrut, motDePasse)
    /\ LoginValide(emailBrut, motDePasse)
    /\ id \in TrouverParEmail(NormalizeEmail(emailBrut))

BonMotDePasse(motDePasse, id) ==
    BcryptCompare(motDePasse, utilisateurs[id].mot_de_passe_hash)

\* C1: once three consecutive logins with a wrong password have been made for a
\* user, every later login for that user, the correct password included, is
\* answered 423 without a token, and no login lowers the counter below the
\* threshold again.
C1_VerrouillagePersistant ==
    [][\A emailBrut \in Emails, motDePasse \in MotsDePasse, id \in DOMAIN utilisateurs :
          (mauvaisDeSuite[id] >= maxLoginAttempts /\ LoginPour(emailBrut, motDePasse, id))
              => /\ reponse'.statut = 423
                 /\ reponse'.data = Null
                 /\ utilisateurs'[id].tentatives_echec >= maxLoginAttempts]_vars

C1_Temoin ==
    /\ requete.op = "login"
    /\ reponse.statut = 423
    /\ \E id \in TrouverParEmail(NormalizeEmail(requete.email)) :
          /\ mauvaisDeSuite[id] >= maxLoginAttempts
          /\ BonMotDePasse(requete.mot_de_passe, id)

\* C2: a login with a wrong password on an account whose counter is below 3
\* adds exactly 1 to the counter and is answered 423 when the counter has
\* reached 3 and 401 otherwise: 401 for the first and second wrong attempts
\* in a row, 423 for the third.
C2_EchecIncremente ==
    [][\A emailBrut \in Emails, motDePasse \in MotsDePasse, id \in DOMAIN utilisateurs :
          (/\ LoginPour(emailBrut, motDePasse, id)
           /\ utilisateurs[id].tentatives_echec < maxLoginAttempts
           /\ ~BonMotDePasse(motDePasse, id))
              => /\ utilisateurs'[id].tentatives_echec = utilisateurs[id].tentatives_echec + 1
                 /\ reponse'.statut =
                        IF utilisateurs[id].tentatives_echec + 1 >= maxLoginAttempts
                        THEN 423 ELSE 401
                 /\ reponse'.statut = IF mauvaisDeSuite'[id] = maxLoginAttempts THEN 423 ELSE 401
                 /\ reponse'.data = Null]_vars

C2_Temoin ==
    /\ requete.op = "login"
    /\ reponse.statut = 423
    /\ \E id \in TrouverParEmail(NormalizeEmail(requete.email)) :
          /\ mauvaisDeSuite[id] = maxLoginAttempts
          /\ utilisateurs[id].tentatives_echec = maxLoginAttempts
          /\ ~BonMotDePasse(requete.mot_de_passe, id)

\* C3: a login with the correct password on an account whose counter is below
\* 3 sets the counter to 0 and returns a token carrying the id and the email
\* of that user; the counter of an unlocked account therefore always equals the
\* number of wrong attempts since the last successful login.
C3_SuccesReinitialise ==
    [][/\ \A emailBrut \in Emails, motDePasse \in MotsDePasse, id \in DOMAIN utilisateurs :
            (/\ LoginPour(emailBrut, motDePasse, id)
             /\ utilisateurs[id].tentatives_echec < maxLoginAttempts
             /\ BonMotDePasse(motDePasse, id))
                => /\ utilisateurs'[id].tentatives_echec = 0
                   /\ reponse'.statut = 200
                   /\ reponse'.data # Null
                   /\ reponse'.data[1].token.id = id
                   /\ reponse'.data[1].token.email = utilisateurs[id].email
       /\ \A id \in DOMAIN utilisateurs' :
            utilisateurs'[id].tentatives_echec < maxLoginAttempts
                => utilisateurs'[id].tentatives_echec = mauvaisDeSuite'[id]]_vars

C3_Temoin ==
    /\ requete.op = "login"
    /\ reponse.statut = 200
    /\ \E id \in TrouverParEmail(NormalizeEmail(requete.email)) :
          /\ reponse.data[1].token.id = id
          /\ utilisateurs[id].tentatives_echec = 0
          /\ \E autre \in DOMAIN utilisateurs : utilisateurs[autre].tentatives_echec = 2

----------------------------------------------------------------------------
(* Claims on the status of a task *)

Entrees(id) == {i \in DOMAIN historique : historique[i].tache_id = id}

\* C4: a task has a completion date exactly when its status is TERMINEE: the
\* change into TERMINEE writes the date of that change, the change out of
\* TERMINEE writes null, and a step that leaves the status of a task alone
\* leaves its completion date alone.
C4_CompletionSuitStatut ==
    [][\A id \in DOMAIN taches' :
          /\ taches'[id].date_completion # Null <=> taches'[id].statut = "TERMINEE"
          /\ id \in DOMAIN taches =>
                IF taches'[id].statut = taches[id].statut
                THEN taches'[id].date_completion = taches[id].date_completion
                ELSE IF taches'[id].statut = "TERMINEE"
                THEN taches'[id].date_completion = <<horloge>>
                ELSE taches'[id].date_completion = Null]_vars

C4_Temoin ==
    /\ enCours = Aucun
    /\ \E id \in DOMAIN taches :
          /\ taches[id].statut = "EN_COURS"
          /\ taches[id].date_completion = Null
          /\ taches[id].titre = Titre("xyz")
          /\ \E i \in Entrees(id) : historique[i].ancien_statut = "TERMINEE"

\* C5: each successful modifierTache whose body carries a status different
\* from the current one of the task writes exactly one history entry (task,
\* old status, new status) before it updates the task; creerTache and a
\* modifierTache without a status or with the current status write none; so
\* between two requests the number of history entries of a task is the number
\* of status changes applied to it.
C5_UneEntreeParChangement ==
    [][/\ \A u \in Demandeurs, id \in TacheIdsStatut, corps \in CorpsModificationStatut :
            ModifierTache(u, id, corps) =>
                IF enCours' # Aucun
                THEN /\ corps.statut # taches[id].statut
                     /\ historique' = Append(historique,
                            [tache_id |-> id, ancien_statut |-> taches[id].statut,
                             nouveau_statut |-> corps.statut, date_modification |-> horloge])
                ELSE /\ historique' = historique
                     /\ (reponse'.statut = 200 /\ "statut" \in DOMAIN corps)
                            => corps.statut = taches[id].statut
       /\ ModifierTacheFin =>
            /\ historique' = historique
            /\ reponse'.statut = 200
            /\ historique[Len(historique)].tache_id = enCours.id
            /\ historique[Len(historique)].ancien_statut = taches[enCours.id].statut
            /\ historique[Len(historique)].nouveau_statut = taches'[enCours.id].statut
            /\ taches'[enCours.id].statut # taches[enCours.id].statut
       /\ \A u \in Demandeurs, corps \in CorpsCreationStatut :
            CreerTache(u, corps) => historique' = historique
       /\ enCours' = Aucun =>
            \A id \in DOMAIN taches' :
                Cardinality({i \in DOMAIN historique' : historique'[i].tache_id = id})
                    = changements'[id]]_vars

C5_Temoin ==
    /\ enCours = Aucun
    /\ reponse.op = "modifierTache"
    /\ reponse.statut = 200
    /\ \E id \in DOMAIN taches :
          /\ changements[id] = 2
          /\ Cardinality(Entrees(id)) = 2
          /\ taches[id].statut = "A_FAIRE"
          /\ taches[id].titre = Titre("xyz")

----------------------------------------------------------------------------
(* Claims on ownership *)

\* The answer to a request of u on the task id that is absent or not hers
RefusTache(u, id) ==
    IF id \notin DOMAIN taches
    THEN reponse' # Aucun /\ reponse'.statut = 404
    ELSE taches[id].utilisateur_id # u => (reponse' # Aucun /\ reponse'.statut = 403)

\* A handler writes its name, its requester and its target into requete, so a
\* step of the handler op is a step that ends with requete.op = op
Recue(op) == requete'.op = op

\* A refusal that has written nothing
RefusSansEffet ==
    /\ reponse' # Aucun
    /\ reponse'.statut = 403
    /\ enCours' = Aucun
    /\ UNCHANGED <<taches, listes, historique>>

\* C6: detailTache, supprimerTache and a validated modifierTache answer 404
\* when no task has the id and 403 when the task exists and belongs to
\* another user; no response 200 or 201 carries a task that is not the
\* requester's.
C6_AbsenteAvantInterdite ==
    [][/\ LET u == requete'.utilisateur
               id == requete'.id
           IN  /\ (Recue("detailTache") /\ DetailTache(u, id)) => RefusTache(u, id)
               /\ (Recue("supprimerTache") /\ SupprimerTache(u, id)) => RefusTache(u, id)
               /\ \A corps \in CorpsModification :
                     (/\ Recue("modifierTache")
                      /\ ModificationValide(corps)
                      /\ ModifierTache(u, id, corps)) => RefusTache(u, id)
       /\ (/\ reponse' # Aucun
           /\ reponse'.op \in {"creerTache", "detailTache", "modifierTache"}
           /\ reponse'.statut \in {200, 201})
              => reponse'.data[1].utilisateur_id = requete'.utilisateur]_vars

C6_Temoin ==
    /\ reponse.op = "detailTache"
    /\ reponse.statut = 403
    /\ requete.id \in DOMAIN taches
    /\ taches[requete.id].utilisateur_id # requete.utilisateur

\* C7: a validated modifierTache, a supprimerTache, a validated modifierListe
\* and a supprimerListe sent by a user who does not own the existing target
\* are answered 403 and change no task, no list and no history entry; the
\* supprimerListe of a non-owner dissociates no task.
C7_NonProprietaireSansEffet ==
    [][LET u == requete'.utilisateur
           id == requete'.id
           tacheDAutrui == id \in DOMAIN taches /\ taches[id].utilisateur_id # u
           listeDAutrui == id \in DOMAIN listes /\ listes[id].utilisateur_id # u
       IN  /\ (Recue("supprimerTache") /\ SupprimerTache(u, id) /\ tacheDAutrui)
                  => RefusSansEffet
           /\ \A corps \in CorpsModificationProprietaires :
                 (/\ Recue("modifierTache")
                  /\ ModificationValide(corps)
                  /\ ModifierTache(u, id, corps)
                  /\ tacheDAutrui) => RefusSansEffet
           /\ (Recue("supprimerListe") /\ SupprimerListe(u, id) /\ listeDAutrui)
                  => RefusSansEffet
           /\ \A corps \in CorpsListeModification :
                 (/\ Recue("modifierListe")
                  /\ ListeModificationValide(corps)
                  /\ ModifierListe(u, id, corps)
                  /\ listeDAutrui) => RefusSansEffet]_vars

C7_Temoin ==
    /\ reponse.op = "supprimerListe"
    /\ reponse.statut = 403
    /\ requete.id \in DOMAIN listes
    /\ listes[requete.id].utilisateur_id # requete.utilisateur
    /\ \E t \in DOMAIN taches : taches[t].liste_id = <<requete.id>>

\* C10: a validated modifierTache of the owner whose body carries a non-null
\* liste_id that is no list of hers is answered 403 and writes nothing, neither
\* the task nor a history entry, although the body also carries a status other
\* than the current one; a body whose liste_id is null sets the liste_id of the
\* task to null whatever the lists are.
C10_ListeRefuseeSansEcriture ==
    [][LET u == requete'.utilisateur
           id == requete'.id
       IN  \A corps \in CorpsModification :
              (/\ Recue("modifierTache")
               /\ "liste_id" \in DOMAIN corps
               /\ ModificationValide(corps)
               /\ ModifierTache(u, id, corps)
               /\ id \in DOMAIN taches
               /\ taches[id].utilisateur_id = u)
                  => IF corps.liste_id = Null
                     THEN /\ reponse' # Aucun
                          /\ reponse'.statut = 200
                          /\ taches' = [taches EXCEPT ![id].liste_id = Null]
                     ELSE (\/ corps.liste_id[1] \notin DOMAIN listes
                           \/ listes[corps.liste_id[1]].utilisateur_id # u)
                              => /\ RefusSansEffet
                                 /\ reponse'.erreur = MsgListeRefusee]_vars

C10_Temoin ==
    /\ reponse.op = "modifierTache"
    /\ reponse.statut = 403
    /\ reponse.erreur = MsgListeRefusee
    /\ requete.id \in DOMAIN taches
    /\ taches[requete.id].utilisateur_id = requete.utilisateur
    /\ taches[requete.id].statut # "TERMINEE"
    /\ \A corps \in CorpsModification :
          ("liste_id" \in DOMAIN corps /\ corps.liste_id # Null) => corps.statut = "TERMINEE"
    /\ \E l \in DOMAIN listes : listes[l].utilisateur_id # requete.utilisateur
    /\ historique = <<>>

----------------------------------------------------------------------------
(* Claims on the lists *)

\* C8: the supprimerListe of the owner first sets to null the liste_id of the
\* tasks that reference the list, keeping their other fields and every other
\* task as they were, while the list is still there; it then removes that list
\* only, no task referencing it any more, and answers 200 with every task
\* still there.
C8_DissocierPuisSupprimer ==
    [][/\ \A u \in Demandeurs, id \in ListeIdsListes :
            (/\ SupprimerListe(u, id)
             /\ id \in DOMAIN listes
             /\ listes[id].utilisateur_id = u)
                => /\ listes' = listes
                   /\ enCours' # Aucun
                   /\ DOMAIN taches' = DOMAIN taches
                   /\ \A t \in DOMAIN taches :
                         taches'[t] = IF taches[t].liste_id = <<id>>
                                      THEN [taches[t] EXCEPT !.liste_id = Null]
                                      ELSE taches[t]
       /\ SupprimerListeFin =>
            /\ enCours.id \in DOMAIN listes
            /\ \A t \in DOMAIN taches : taches[t].liste_id # <<enCours.id>>
            /\ taches' = taches
            /\ DOMAIN listes' = DOMAIN listes \ {enCours.id}
            /\ \A l \in DOMAIN listes' : listes'[l] = listes[l]
            /\ reponse'.statut = 200]_vars

C8_Temoin ==
    /\ reponse.op = "supprimerListe"
    /\ reponse.statut = 200
    /\ requete.id \notin DOMAIN listes
    /\ \E t \in DOMAIN taches :
          taches[t].titre = Titre("xyz") /\ taches[t].liste_id = Null
    /\ \E t \in DOMAIN taches :
          taches[t].liste_id # Null /\ taches[t].liste_id[1] \in DOMAIN listes

----------------------------------------------------------------------------
(* Claims on the creation of a task *)

ListeNonPossedee(corps, u) ==
    /\ "liste_id" \in DOMAIN corps
    /\ corps.liste_id # Null
    /\ \/ corps.liste_id[1] \notin DOMAIN listes
       \/ listes[corps.liste_id[1]].utilisateur_id # u

\* What the owner reads of the task id once taches has become taches'
Lue(id) == Vue([taches |-> taches', listes |-> listes'], id)

Creee(u, corps) ==
    /\ reponse'.statut = 201
    /\ nbTaches + 1 \notin DOMAIN taches
    /\ DOMAIN taches' = DOMAIN taches \cup {nbTaches + 1}
    /\ Lue(nbTaches + 1).utilisateur_id = u
    /\ Lue(nbTaches + 1).statut = "A_FAIRE"
    /\ Lue(nbTaches + 1).date_completion = Null
    /\ "priorite" \in DOMAIN corps => Lue(nbTaches + 1).priorite = corps.priorite
    /\ "date_echeance" \in DOMAIN corps
          => Lue(nbTaches + 1).date_echeance = corps.date_echeance
    /\ "liste_id" \in DOMAIN corps => Lue(nbTaches + 1).liste_id = corps.liste_id

LectureParProprietaire ==
    \A u \in Demandeurs, id \in TacheIdsChamps :
        (DetailTache(u, id) /\ id \in DOMAIN taches /\ taches[id].utilisateur_id = u)
            => reponse' = Succes("detailTache", 200,
                                 Vue([taches |-> taches, listes |-> listes], id))

\* C9 as stated: a validated creerTache naming a list that is not the
\* requester's is answered 403 and creates no task; any other one creates a
\* task of the requester with status A_FAIRE and no completion date, whatever
\* the body says, and the owner then reads the title, description, priority,
\* due date and liste_id that the body supplied.
C9_RelectureIdentique ==
    [][/\ \A u \in Demandeurs, corps \in CorpsCreationChamps :
            (CreerTache(u, corps) /\ CreationValide(corps)) =>
                IF ListeNonPossedee(corps, u)
                THEN reponse'.statut = 403 /\ taches' = taches
                ELSE /\ Creee(u, corps)
                     /\ Lue(nbTaches + 1).titre = corps.titre
                     /\ "description" \in DOMAIN corps
                           => Lue(nbTaches + 1).description = corps.description
       /\ LectureParProprietaire]_vars

\* C9: as above, except that the title read is the supplied title without its
\* leading and trailing spaces, and the description read is null when the
\* supplied description is the empty string.
C9_RelectureAssainie ==
    [][/\ \A u \in Demandeurs, corps \in CorpsCreationChamps :
            (CreerTache(u, corps) /\ CreationValide(corps)) =>
                IF ListeNonPossedee(corps, u)
                THEN /\ reponse'.statut = 403
                     /\ reponse'.erreur = MsgListeRefusee
                     /\ taches' = taches
                ELSE /\ Creee(u, corps)
                     /\ Lue(nbTaches + 1).titre = Trim(corps.titre)
                     /\ "description" \in DOMAIN corps
                           => Lue(nbTaches + 1).description =
                                 IF corps.description = <<"">> THEN Null
                                 ELSE corps.description
       /\ LectureParProprietaire]_vars

C9_Temoin ==
    /\ reponse.op = "detailTache"
    /\ reponse.statut = 200
    /\ reponse.data[1].titre = Titre("abc")
    /\ reponse.data[1].description = <<"d">>
    /\ reponse.data[1].priorite = "HAUTE"
    /\ reponse.data[1].date_echeance = <<20>>
    /\ reponse.data[1].statut = "A_FAIRE"
    /\ reponse.data[1].date_completion = Null
    /\ reponse.data[1].utilisateur_id = requete.utilisateur

----------------------------------------------------------------------------
(* Claims on the partial update *)

ChampsModifiables == {"titre", "description", "priorite", "date_echeance", "liste_id"}

\* The columns a modifierTache with this body may write
Permis(corps) ==
    (DOMAIN corps \cap (ChampsModifiables \cup {"statut"}))
        \cup (IF "statut" \in DOMAIN corps THEN {"date_completion"} ELSE {})

\* Between taches and taches' only the columns permis of the task id differ
CadrePreserve(id, permis) ==
    /\ DOMAIN taches' = DOMAIN taches
    /\ \A t \in DOMAIN taches :
          IF t = id
          THEN /\ DOMAIN taches'[t] = DOMAIN taches[t]
               /\ \A f \in DOMAIN taches[t] \ permis : taches'[t][f] = taches[t][f]
          ELSE taches'[t] = taches[t]

\* C11: a successful modifierTache writes only columns named in its body, and
\* date_completion when the body names the status: the columns the body does
\* not name, the owner and the creation date of the task keep their values and
\* every other task is as it was; the columns the body names, other than the
\* status, take the value sent (the title trimmed).
C11_MiseAJourPartielle ==
    [][/\ LET u == requete'.utilisateur
               id == requete'.id
           IN  \A corps \in CorpsModificationPartiel :
                  (Recue("modifierTache") /\ ModifierTache(u, id, corps)) =>
                      IF enCours' # Aucun
                      THEN /\ taches' = taches
                           /\ enCours'.id = id
                           /\ DOMAIN enCours'.donneesMAJ \subseteq Permis(corps)
                           /\ \A f \in DOMAIN corps \cap ChampsModifiables :
                                 enCours'.donneesMAJ[f] = Assainir(corps)[f]
                      ELSE IF reponse'.statut = 200
                      THEN /\ CadrePreserve(id, Permis(corps))
                           /\ \A f \in DOMAIN corps \cap ChampsModifiables :
                                 taches'[id][f] = Assainir(corps)[f]
                      ELSE taches' = taches
       /\ ModifierTacheFin =>
            /\ reponse'.statut = 200
            /\ CadrePreserve(enCours.id, DOMAIN enCours.donneesMAJ)
            /\ \A f \in DOMAIN enCours.donneesMAJ :
                  taches'[enCours.id][f] = enCours.donneesMAJ[f]]_vars

C11_Temoin ==
    /\ reponse.op = "modifierTache"
    /\ reponse.statut = 200
    /\ taches[1].titre = Titre("xyz")
    /\ taches[1].statut = "TERMINEE"
    /\ taches[1].date_completion # Null
    /\ taches[1].description = <<"d">>
    /\ taches[1].priorite = "HAUTE"
    /\ taches[1].liste_id = <<1>>
    /\ taches[1].utilisateur_id = 1
    /\ taches[1].date_creation = 1
    /\ taches[2].titre = Titre("abc")

----------------------------------------------------------------------------
(* Claims on the registration *)

ChampsPublics == {"id", "email", "nom_affichage", "date_creation"}

----------------------------------------------------------------------------
(* Claims on what a failed login reveals *)

IdentifiantsInvalides == Erreur("login", 401, MsgIdentifiants)

CompteVerrouille == Erreur("login", 423, MsgVerrouille)

Inscrits(emailBrut) == TrouverParEmail(NormalizeEmail(emailBrut))

\* C13 as stated: a validated login with a wrong password for an account whose
\* counter is below the threshold is answered exactly as a login for an email
\* that is not registered.
C13_MemeReponseNonVerrouille ==
    [][\A emailBrut \in Emails, motDePasse \in MotsDePasse :
          (Login(emailBrut, motDePasse) /\ LoginValide(emailBrut, motDePasse)) =>
              /\ Inscrits(emailBrut) = {} => reponse' = IdentifiantsInvalides
              /\ \A id \in Inscrits(emailBrut) :
                    (~Verrouille(utilisateurs[id]) /\ ~BonMotDePasse(motDePasse, id))
                        => reponse' = IdentifiantsInvalides]_vars

\* C13: a validated login with a wrong password for an account that the
\* attempt leaves below the threshold is answered exactly as a login for an
\* email that is not registered; the wrong password that brings the counter to
\* the threshold, and every login for a locked account, is answered 423; a
\* failed login has no other answer.
C13_SeulLeVerrouillageDistingue ==
    [][\A emailBrut \in Emails, motDePasse \in MotsDePasse :
          (Login(emailBrut, motDePasse) /\ LoginValide(emailBrut, motDePasse)) =>
              /\ Inscrits(emailBrut) = {} => reponse' = IdentifiantsInvalides
              /\ \A id \in Inscrits(emailBrut) :
                    /\ (/\ ~BonMotDePasse(motDePasse, id)
                        /\ utilisateurs[id].tentatives_echec + 1 < maxLoginAttempts)
                           => reponse' = IdentifiantsInvalides
                    /\ (/\ ~BonMotDePasse(motDePasse, id)
                        /\ utilisateurs[id].tentatives_echec + 1 = maxLoginAttempts)
                           => reponse' = CompteVerrouille
                    /\ Verrouille(utilisateurs[id]) => reponse' = CompteVerrouille
              /\ reponse'.statut # 200
                    => reponse' \in {IdentifiantsInvalides, CompteVerrouille}]_vars

C13_Temoin ==
    /\ requete.op = "login"
    /\ reponse = IdentifiantsInvalides
    /\ \E id \in Inscrits(requete.email) :
          /\ ~BonMotDePasse(requete.mot_de_passe, id)
          /\ utilisateurs[id].tentatives_echec = maxLoginAttempts - 1
    /\ \E emailBrut \in EmailsValides : Inscrits(emailBrut) = {}

----------------------------------------------------------------------------
(* Claims on the password change *)

Accepte(jeton) == AuthMiddleware(Bearer(jeton)).statut = 0

\* C14: a password change with a wrong old password is answered 400 'old password
\* incorrect' and leaves the hash unchanged; with the correct old password the hash
\* becomes that of the new password, which is then the only password that matches
\* it, and a login is answered 200 only with the password of the stored hash. In
\* both cases every token handed out before is accepted afterwards exactly when
\* it was accepted before, and the failed-login counters are unchanged.
C14_ChangementDeMotDePasse ==
    [][\A ancien \in AnciensMotsDePasse, nouveau \in NouveauxMotsDePasse :
          LET u == requete'.utilisateur IN
          /\ (Recue("changePassword") /\ u \in DOMAIN utilisateurs
                /\ ChangePassword(u, ancien, nouveau)
                /\ ChangePasswordValide(ancien, nouveau))
              => /\ IF BcryptCompare(ancien, utilisateurs[u].mot_de_passe_hash)
                    THEN /\ reponse'.statut = 200
                         /\ \A motDePasse \in MotsDePasse :
                               BcryptCompare(motDePasse, utilisateurs'[u].mot_de_passe_hash)
                                   <=> motDePasse = nouveau
                    ELSE /\ reponse' = Erreur("changePassword", 400, MsgAncienIncorrect)
                         /\ utilisateurs' = utilisateurs
                 /\ \A jeton \in jetons : Accepte(jeton)' <=> Accepte(jeton)
                 /\ jetons' = jetons
                 /\ \A i \in DOMAIN utilisateurs :
                       /\ utilisateurs'[i].tentatives_echec = utilisateurs[i].tentatives_echec
                       /\ i # u => utilisateurs'[i] = utilisateurs[i]
          /\ \A id \in DOMAIN utilisateurs :
                (LoginPour("a@x.com", ancien, id) /\ reponse'.statut = 200)
                    => BonMotDePasse(ancien, id)]_vars

C14_Temoin ==
    /\ reponse = Succes("changePassword", 200, [message |-> MsgMotDePasseModifie])
    /\ utilisateurs[requete.utilisateur].mot_de_passe_hash = BcryptHash("secret2")
    /\ utilisateurs[requete.utilisateur].tentatives_echec = 1
    /\ \E jeton \in jetons : jeton.id = requete.utilisateur /\ Accepte(jeton)

----------------------------------------------------------------------------
(* Claims on the protected routes *)

SansJeton(entete) == entete = Null \/ entete.schema # "Bearer"

JetonInvalide(entete) ==
    ~SansJeton(entete) /\ (entete.jeton = Null \/ entete.jeton[1].signature # jwtSecret)

JetonExpire(entete) ==
    /\ ~SansJeton(entete)
    /\ ~JetonInvalide(entete)
    /\ horloge - entete.jeton[1].iat >= jwtExpiration

\* What the claim requires of a step that handles a request with the header
RouteConforme(entete) ==
    IF SansJeton(entete) \/ JetonInvalide(entete) \/ JetonExpire(entete)
    THEN /\ reponse' # Aucun
         /\ reponse'.statut = 401
         /\ reponse'.data = Null
         /\ requete'.utilisateur \notin DOMAIN utilisateurs
         /\ UNCHANGED <<utilisateurs, listes, taches, historique, nbListes, nbTaches, jetons,
                        enCours>>
         /\ JetonExpire(entete) => reponse'.erreur = MsgJetonExpire
         /\ JetonInvalide(entete) => reponse'.erreur = MsgJetonInvalide
         /\ MsgJetonExpire # MsgJetonInvalide
    ELSE LET jeton == entete.jeton[1] IN
         /\ jeton \in jetons
         /\ reponse' = Aucun \/ reponse'.statut # 401
         /\ requete'.utilisateur = jeton.id
         /\ AuthMiddleware(entete).utilisateur =
               <<[id |-> jeton.id, email |-> utilisateurs[jeton.id].email]>>

\* What the claim requires of the token that a login step hands out
JetonDuDemandeur ==
    LET jeton == reponse'.data[1].token IN
    /\ TrouverParEmail(NormalizeEmail(requete'.email)) = {jeton.id}
    /\ jeton.email = utilisateurs[jeton.id].email
    /\ jeton.iat = horloge

\* C15: a protected route called without a bearer token, with a text that is not
\* a token, with a token signed with another secret or with a token issued 24
\* hours ago or more is answered 401 with no data, runs for no user and leaves
\* every table and every issued token as it was; the message of an expired token
\* differs from that of an invalid one. With any other header the handler runs
\* for the id carried by a token that login issued, and the middleware yields
\* exactly that id and the email of that user. A login answered 200 issues a
\* token carrying the id and the email of the user who logged in.
C15_RoutesProtegees ==
    [][IF requete'.op \in OpsGarde
       THEN \A entete \in EntetesGarde :
               Route(entete, requete'.op) => RouteConforme(entete)
       ELSE (Recue("login") /\ Login(requete'.email, requete'.mot_de_passe)
                /\ reponse'.statut = 200) => JetonDuDemandeur]_vars

C15_Temoin ==
    /\ reponse # Aucun
    /\ reponse.statut = 401
    /\ reponse.erreur = MsgJetonExpire
    /\ requete.op = "supprimerTache"
    /\ historique # <<>>
    /\ \E jeton \in jetons : Accepte(jeton)

----------------------------------------------------------------------------
(* Claims on failures between two writes *)

SansLaDerniere(entrees) == SubSeq(entrees, 1, Len(entrees) - 1)

\* C16: when modifierTache fails once its history entry is written, that entry
\* is not there afterwards; when supprimerListe fails once the tasks of the list
\* are dissociated, these tasks reference the list afterwards.
C16_EchecAtomique ==
    [][/\ ModifierTacheEchec => historique' = SansLaDerniere(historique)
       /\ SupprimerListeEchec =>
             \A t \in enCours.dissociees : taches'[t].liste_id = <<enCours.id>>]_vars

\* A failed supprimerListe has answered 500 and the list is there without the
\* task it held; a failed modifierTache has left an entry for a change that the
\* task never underwent
C16_Temoin ==
    /\ reponse = Erreur("supprimerListe", 500, MsgErreurInterne)
    /\ 1 \in DOMAIN listes
    /\ taches[1].liste_id = Null
    /\ Cardinality(Entrees(1)) > changements[1]

----------------------------------------------------------------------------
(* Claims on the listing *)

\* The tasks of the user u that equal every filter supplied in the query
Attendues(u, query) ==
    {id \in DOMAIN taches :
        /\ taches[id].utilisateur_id = u
        /\ query.statut \notin {Null, <<"">>} => <<taches[id].statut>> = query.statut
        /\ query.priorite \notin {Null, <<"">>} => <<taches[id].priorite>> = query.priorite
        /\ query.liste_id # Null => taches[id].liste_id = query.liste_id}

ResultatPour(tables, u, query) ==
    TrouverEtCompter(tables, u,
                     [page |-> OuDefaut(ParseInt(query.page), defaultPage),
                      limit |-> OuDefaut(ParseInt(query.limit), defaultPageLimit),
                      statut |-> query.statut, priorite |-> query.priorite,
                      liste_id |-> query.liste_id])

Listee == Recue("listerTaches") /\ ListerTaches(requete'.utilisateur, requete'.query)

\* C17: the listing of a user holds only tasks that this user owns and that equal
\* every supplied filter (status, priority, list) at once, each as it is stored,
\* all of them when they fit in one page, and reports their number as the total; a filter that is absent or empty
\* does not restrict; a step of a request made by another user, whatever it
\* writes, leaves the result of every listing of the user as it was.
C17_ListeFiltree ==
    [][/\ Listee =>
             LET u == requete'.utilisateur
                 lignes == reponse'.data[1].taches
             IN  /\ {lignes[i].id : i \in DOMAIN lignes} \subseteq Attendues(u, requete'.query)
                 /\ requete'.query.limit = Null
                       => {lignes[i].id : i \in DOMAIN lignes} = Attendues(u, requete'.query)
                 /\ \A i \in DOMAIN lignes :
                       /\ lignes[i].utilisateur_id = u
                       /\ lignes[i] = Vue([taches |-> taches, listes |-> listes], lignes[i].id)
                 /\ reponse'.data[1].pagination.total =
                       Cardinality(Attendues(u, requete'.query))
       /\ \A u \in Demandeurs, query \in RequetesListage :
             (requete' # Aucun /\ requete'.utilisateur # u
                /\ <<taches', listes'>> # <<taches, listes>>)
                 => ResultatPour([taches |-> taches', listes |-> listes'], u, query)
                        = ResultatPour([taches |-> taches, listes |-> listes], u, query)]_vars

C17_Temoin ==
    /\ reponse.op = "listerTaches"
    /\ requete.utilisateur = 1
    /\ requete.query.priorite = <<"HAUTE">>
    /\ requete.query.statut = Null
    /\ Len(reponse.data[1].taches) = 1
    /\ \E id \in DOMAIN taches :
          taches[id].utilisateur_id = 1 /\ taches[id].priorite = "MOYENNE"
    /\ \E id \in DOMAIN taches :
          taches[id].utilisateur_id = 2 /\ taches[id].priorite = "HAUTE"

\* The tasks that the user u owns
Possedees(u) == {id \in DOMAIN taches : taches[id].utilisateur_id = u}

\* C18: whatever the filters and the page of the listing, its counters are those
\* of all the tasks that the requester owns: total is their number, the counter
\* of a status is the number of them in that status, and total is the sum of the
\* three counters.
C18_CompteursSurToutesLesTaches ==
    [][Listee =>
          LET u == requete'.utilisateur
              compteurs == reponse'.data[1].compteurs
          IN  /\ DOMAIN compteurs = {"total"} \cup Statuts
              /\ compteurs.total = Cardinality(Possedees(u))
              /\ \A statut \in Statuts :
                    compteurs[statut] =
                        Cardinality({id \in Possedees(u) : taches[id].statut = statut})
              /\ compteurs.total =
                    compteurs.A_FAIRE + compteurs.EN_COURS + compteurs.TERMINEE]_vars

C18_Temoin ==
    /\ reponse.op = "listerTaches"
    /\ requete.query.statut = <<"TERMINEE">>
    /\ Len(reponse.data[1].taches) = 1
    /\ reponse.data[1].compteurs.total = 2
    /\ reponse.data[1].compteurs.A_FAIRE = 1
    /\ Cardinality(DOMAIN taches) = 3
    /\ \E id \in DOMAIN taches : taches[id].utilisateur_id # requete.utilisateur

\* C19: in a listing every task with a due date comes before every task without
\* one, the tasks with a due date are in ascending order of that date, and two
\* tasks with the same due date, or both without one, are in descending order of
\* their creation time.
C19_OrdreDesTaches ==
    [][Listee =>
          LET lignes == reponse'.data[1].taches IN
          \A i, j \in DOMAIN lignes :
             i < j =>
                /\ lignes[i].date_echeance = Null => lignes[j].date_echeance = Null
                /\ (lignes[i].date_echeance # Null /\ lignes[j].date_echeance # Null)
                      => lignes[i].date_echeance[1] <= lignes[j].date_echeance[1]
                /\ lignes[i].date_echeance = lignes[j].date_echeance
                      => lignes[i].date_creation >= lignes[j].date_creation]_vars

C19_Temoin ==
    /\ reponse.op = "listerTaches"
    /\ Len(reponse.data[1].taches) = 3
    /\ reponse.data[1].taches[1].date_echeance = <<20>>
    /\ reponse.data[1].taches[1].date_creation = 2
    /\ reponse.data[1].taches[2].date_echeance = Null
    /\ reponse.data[1].taches[2].date_creation = 3
    /\ reponse.data[1].taches[3].date_echeance = Null
    /\ reponse.data[1].taches[3].date_creation = 1

\* The number that the claim gives to the page or the page size of a query: the
\* default when the text is missing, is zero or is not a number
Effectif(texte, defaut) ==
    IF texte \in {Null, Nombre(0), PasUnNombre} THEN defaut ELSE texte[1].entier

\* The ids of the whole ordered matching set of a query of the user u
Ordonnees(u, query) == Trier(taches, Attendues(u, query))

\* The ids of the pages 1..n of the query, one after the other
RECURSIVE PagesJusqua(_, _, _)
PagesJusqua(u, query, n) ==
    IF n = 0
    THEN <<>>
    ELSE LET lignes == ResultatPour([taches |-> taches, listes |-> listes], u,
                                    [query EXCEPT !.page = Nombre(n)]).rows
         IN  PagesJusqua(u, query, n - 1) \o [i \in DOMAIN lignes |-> lignes[i].id]

\* C20: a listing with page p and page size s (1 and 20 when the text is missing,
\* zero or not a number) holds the tasks at the positions (p-1)*s+1 .. p*s of the
\* ordered matching set, at most s of them, and reports p, s, the size of the
\* whole matching set as total and ceil(total/s) as totalPages; the pages
\* 1..totalPages of the same query, one after the other, are the ordered matching
\* set, each task once.
C20_Pagination ==
    [][Listee =>
          LET u == requete'.utilisateur
              query == requete'.query
              p == Effectif(query.page, 1)
              s == Effectif(query.limit, 20)
              toutes == Ordonnees(u, query)
              lignes == reponse'.data[1].taches
              pagination == reponse'.data[1].pagination
          IN  /\ pagination.page = p
              /\ pagination.limit = s
              /\ pagination.total = Len(toutes)
              /\ pagination.totalPages * s >= Len(toutes)
              /\ (pagination.totalPages - 1) * s < Len(toutes)
              /\ Len(lignes) <= s
              /\ \A position \in 1..Len(toutes) :
                    (position \in ((p - 1) * s + 1)..(p * s))
                        <=> /\ position - (p - 1) * s \in DOMAIN lignes
                            /\ lignes[position - (p - 1) * s].id = toutes[position]
              /\ Len(lignes) = Cardinality(1..Len(toutes) \cap ((p - 1) * s + 1)..(p * s))
              /\ PagesJusqua(u, query, pagination.totalPages) = toutes]_vars

C20_Temoin ==
    /\ reponse.op = "listerTaches"
    /\ requete.query.page = Nombre(2)
    /\ requete.query.limit = Nombre(2)
    /\ reponse.data[1].pagination.total = 3
    /\ reponse.data[1].pagination.totalPages = 2
    /\ Len(reponse.data[1].taches) = 1

----------------------------------------------------------------------------
(* C21: the search *)

\* texte contains mot, without regard to case
Contient(texte, mot) ==
    \E i \in 0..(Len(texte) - Len(mot)) :
        \A j \in 1..Len(mot) : Minuscule(texte[i + j]) = Minuscule(mot[j])

\* The tasks of u whose title or description contains mot
Contenant(u, mot) ==
    {id \in DOMAIN taches :
        /\ taches[id].utilisateur_id = u
        /\ \/ Contient(taches[id].titre, mot)
           \/ taches[id].description # Null /\ Contient(taches[id].description[1], mot)}

Recherchee == Recue("rechercher") /\ Rechercher(requete'.utilisateur, requete'.q)

RechercheConforme(u, q) ==
    IF q = Null \/ Trim(q[1]) = <<>>
    THEN reponse' = Erreur("rechercher", 400, MsgRechercheRequise)
    ELSE LET rows == reponse'.data[1].taches IN
         /\ reponse'.statut = 200
         /\ DOMAIN reponse'.data[1] = {"taches"}
         /\ {rows[i].id : i \in DOMAIN rows} = Contenant(u, Trim(q[1]))
         /\ Len(rows) = Cardinality(Contenant(u, Trim(q[1])))
         /\ \A i \in DOMAIN rows :
               /\ rows[i] = Vue([taches |-> taches, listes |-> listes], rows[i].id)
               /\ rows[i].utilisateur_id = u
         /\ \A i, j \in DOMAIN rows :
               i < j => rows[i].date_creation > rows[j].date_creation

\* C21: a search with an absent, empty or blank keyword is answered 400; any
\* other search is answered with only the list of the requester's tasks whose
\* title or description contains the trimmed keyword, whatever the case, the
\* newest first, and writes nothing.
C21_Recherche ==
    [][Recherchee =>
          /\ RechercheConforme(requete'.utilisateur, requete'.q)
          /\ UNCHANGED <<utilisateurs, listes, taches, historique>>]_vars

\* A search has returned a task of which neither the title nor the description
\* contains the keyword
C21_Temoin ==
    /\ reponse # Aucun
    /\ reponse.op = "rechercher"
    /\ reponse.statut = 200
    /\ requete.op = "rechercher"
    /\ \E i \in DOMAIN reponse.data[1].taches :
          reponse.data[1].taches[i].id \notin
              Contenant(requete.utilisateur, Trim(requete.q[1]))

\* What holds: the same when the database accepts the statement and the keyword
\* has no % and no _ in it
SansJoker(q) == q = Null \/ \A i \in DOMAIN q[1] : q[1][i] \notin {"%", "_"}

RechercheSansJoker ==
    [][Recherchee /\ SansJoker(requete'.q) /\ reponse'.statut # 500 =>
          RechercheConforme(requete'.utilisateur, requete'.q)]_vars

----------------------------------------------------------------------------
(* C22: deleting a task deletes its history *)

\* The history entries of the task id among entrees, in the order of their creation
EntreesDe(entrees, id) == SelectSeq(entrees, LAMBDA e : e.tache_id = id)

HistoriqueReference ==
    \A i \in DOMAIN historique : historique[i].tache_id \in DOMAIN taches

SuppressionReussie ==
    /\ Recue("supprimerTache")
    /\ SupprimerTache(requete'.utilisateur, requete'.id)
    /\ reponse'.statut = 200

\* C22: after a successful DeleteTask the task is gone together with its history
\* entries, the entries of the other tasks are what they were, and in every
\* state each history entry references an existing task.
C22_SuppressionEnCascade ==
    /\ HistoriqueReference
    /\ [][/\ HistoriqueReference'
          /\ SuppressionReussie =>
                /\ requete'.id \in DOMAIN taches
                /\ requete'.id \notin DOMAIN taches'
                /\ EntreesDe(historique', requete'.id) = <<>>
                /\ \A id \in DOMAIN taches \ {requete'.id} :
                      /\ id \in DOMAIN taches'
                      /\ taches'[id] = taches[id]
                      /\ EntreesDe(historique', id) = EntreesDe(historique, id)]_vars

\* A task has been deleted and another task keeps its two history entries
C22_Temoin ==
    /\ reponse # Aucun
    /\ reponse.op = "supprimerTache"
    /\ reponse.statut = 200
    /\ requete.id \notin DOMAIN taches
    /\ \A i \in DOMAIN historique : historique[i].tache_id # requete.id
    /\ \E id \in DOMAIN taches : Len(EntreesDe(historique, id)) > 1

----------------------------------------------------------------------------
(* C29: the history of a task is the chain of its status changes *)

Chaine(id) ==
    LET entrees == EntreesDe(historique, id) IN
    /\ entrees = <<>> => taches[id].statut = "A_FAIRE"
    /\ entrees # <<>> =>
          /\ entrees[1].ancien_statut = "A_FAIRE"
          /\ entrees[Len(entrees)].nouveau_statut = taches[id].statut
    /\ \A i \in DOMAIN entrees : entrees[i].ancien_statut # entrees[i].nouveau_statut
    /\ \A i \in 2..Len(entrees) : entrees[i].ancien_statut = entrees[i - 1].nouveau_statut

\* C29: between two operations, the history entries of each task, in the order
\* of their creation, start from A_FAIRE, each start from the status the
\* previous one ended on, never start and end on the same status, and end on the
\* current status of the task; a task without entry is A_FAIRE.
C29_ChaineDHistorique ==
    enCours = Aucun => \A id \in DOMAIN taches : Chaine(id)

\* A task has gone through three status changes and is back to A_FAIRE
C29_Temoin ==
    /\ enCours = Aucun
    /\ \E id \in DOMAIN taches :
          /\ Len(EntreesDe(historique, id)) = 3
          /\ taches[id].statut = "A_FAIRE"

----------------------------------------------------------------------------
(* C23: the lists of a user and their counts *)

ListesListees == Recue("listerListes") /\ ListerListes(requete'.utilisateur)

\* C23: ListLists answers with exactly the lists of the requester, each once, by
\* ascending display order then ascending name, each with the number of tasks
\* whose list is that one at the time of the request.
C23_ListesEtCompteurs ==
    [][ListesListees =>
          LET u == requete'.utilisateur
              lignes == reponse'.data[1].listes
          IN  /\ reponse'.statut = 200
              /\ {lignes[i].id : i \in DOMAIN lignes} =
                    {id \in DOMAIN listes : listes[id].utilisateur_id = u}
              /\ \A i, j \in DOMAIN lignes : lignes[i].id = lignes[j].id => i = j
              /\ \A i \in DOMAIN lignes :
                    /\ lignes[i].nom = listes[lignes[i].id].nom
                    /\ lignes[i].ordre = listes[lignes[i].id].ordre
                    /\ lignes[i].nombre_taches =
                          Cardinality({t \in DOMAIN taches :
                                          taches[t].liste_id = <<lignes[i].id>>})
              /\ \A i, j \in DOMAIN lignes :
                    i < j => \/ lignes[i].ordre < lignes[j].ordre
                             \/ /\ lignes[i].ordre = lignes[j].ordre
                                /\ Rang(lignes[i].nom) <= Rang(lignes[j].nom)]_vars

\* After a task was created, another one moved and the first list deleted, the
\* requester is shown the one list left, with two tasks
C23_Temoin ==
    /\ reponse # Aucun
    /\ reponse.op = "listerListes"
    /\ requete.op = "listerListes"
    /\ requete.utilisateur = 1
    /\ 1 \notin DOMAIN listes
    /\ Len(reponse.data[1].listes) = 1
    /\ reponse.data[1].listes[1].nombre_taches = 2

----------------------------------------------------------------------------
(* C24: the web client after a successful registration *)

InscriptionReussie ==
    /\ client.modeInscription
    /\ Recue("register")
    /\ GererSoumission(requete'.email, requete'.mot_de_passe)
    /\ reponse'.statut = 201

\* C24: once the registration form is submitted and the registration succeeds,
\* the client holds a token and shows the task screen, with no login submitted.
C24_InscriptionConnecte ==
    [][InscriptionReussie =>
          /\ EstConnecte(client')
          /\ Ecran(client') = "EcranTaches"]_vars

\* The registration has succeeded and the client, without a token, shows the
\* login form with the invitation to log in
C24_Temoin ==
    /\ reponse # Aucun
    /\ reponse.op = "register"
    /\ reponse.statut = 201
    /\ client.messageSucces = <<MsgInscriptionReussie>>
    /\ ~client.modeInscription
    /\ ~EstConnecte(client)
    /\ Ecran(client) = "EcranConnexion"

----------------------------------------------------------------------------
(* C25: the lock under concurrent logins *)

VerrouMaintenu ==
    \A id \in DOMAIN utilisateurs :
        Verrouille(utilisateurs[id]) =>
            utilisateurs'[id].tentatives_echec >= utilisateurs[id].tentatives_echec

CompteurBorne ==
    \A id \in DOMAIN utilisateurs : utilisateurs[id].tentatives_echec <= maxLoginAttempts

\* C25: with logins interleaved statement by statement, no step lowers a failed
\* counter that has reached 3, so no login resets it and gets a token for a
\* locked account, and the counter never exceeds 3.
C25_VerrouSousConcurrence ==
    /\ [][VerrouMaintenu]_vars
    /\ []CompteurBorne

\* A login answered 423 after its own increment brought the counter to 3, and
\* yet the counter is 0 and a token is out: a login with the right password, which
\* had read the counter before, has reset it
C25_Temoin ==
    /\ \E r \in DOMAIN enVol :
          /\ enVol[r].pc = "fini"
          /\ enVol[r].reponse.statut = 423
          /\ enVol[r].lu[1].tentatives_echec = maxLoginAttempts
    /\ \E r \in DOMAIN enVol : enVol[r].pc = "fini" /\ enVol[r].reponse.statut = 200
    /\ utilisateurs[1].tentatives_echec = 0
    /\ jetons # {}

----------------------------------------------------------------------------
(* C26: the completion date under concurrent updates *)

ToutesRepondues == \A r \in DOMAIN enVol : enVol[r].pc = "fini"

\* C26: once interleaved UpdateTask requests on one task have all been answered,
\* the completion date of the task is non-null exactly when its status is
\* TERMINEE.
C26_CompletionSousConcurrence ==
    ToutesRepondues =>
        \A id \in DOMAIN taches :
            taches[id].date_completion # Null <=> taches[id].statut = "TERMINEE"

\* Two requests that both read A_FAIRE have been answered 200, one asking for
\* TERMINEE and one for EN_COURS, and the task is EN_COURS with a completion date
C26_Temoin ==
    /\ Len(enVol) = 2
    /\ \A r \in DOMAIN enVol :
          /\ enVol[r].pc = "fini"
          /\ enVol[r].reponse.statut = 200
          /\ enVol[r].lu[1].statut = "A_FAIRE"
    /\ taches[1].statut = "EN_COURS"
    /\ taches[1].date_completion # Null

----------------------------------------------------------------------------
(* C28: a list deleted while a task is being written into it *)

\* C28: once a CreateTask or UpdateTask that names a list and the DeleteList of
\* that list, interleaved, have all been answered, no task references a list
\* that no longer exists.
C28_PasDeListeFantome ==
    (ToutesRepondues /\ enCours = Aucun) =>
        \A t \in DOMAIN taches :
            taches[t].liste_id # Null => taches[t].liste_id[1] \in DOMAIN listes

\* The tasks of the list are dissociated, the list is not removed yet, and a
\* CreateTask answered 201 has written into the list a task that the
\* dissociation did not see
C28_Temoin ==
    /\ enCours # Aucun
    /\ enCours.op = "supprimerListe"
    /\ \E r \in DOMAIN enVol :
          /\ enVol[r].op = "creerTache"
          /\ enVol[r].pc = "fini"
          /\ enVol[r].reponse.statut = 201
          /\ enVol[r].reponse.data[1].id \notin enCours.dissociees
          /\ taches[enVol[r].reponse.data[1].id].liste_id = <<enCours.id>>

----------------------------------------------------------------------------
(* C30: two registrations of one email *)

\* The two requests in flight are valid registrations of the same email
MemeEmail ==
    /\ Len(enVol) = 2
    /\ \A r \in DOMAIN enVol :
          /\ enVol[r].op = "register"
          /\ RegisterValide(enVol[r].email, enVol[r].mot_de_passe)
    /\ enVol[1].email = enVol[2].email

\* C30: once two interleaved Register requests for the same email have both
\* been answered, at most one user has the email, exactly one request was
\* answered 201, and the other was answered 400 with the duplicate email
\* message, not 500.
C30_InscriptionsConcurrentes ==
    (MemeEmail /\ ToutesRepondues) =>
        /\ Cardinality(TrouverParEmail(enVol[1].email)) <= 1
        /\ \E r \in DOMAIN enVol :
              /\ enVol[r].reponse.statut = 201
              /\ enVol[3 - r].reponse = Erreur("register", 400, MsgEmailExiste)

\* Both requests looked the email up before either created the user; one was
\* answered 201 and the other 500, and one user has the email
C30_Temoin ==
    /\ MemeEmail
    /\ ToutesRepondues
    /\ \A r \in DOMAIN enVol : enVol[r].existant = {}
    /\ Cardinality(TrouverParEmail(enVol[1].email)) = 1
    /\ \E r \in DOMAIN enVol :
          /\ enVol[r].reponse.statut = 201
          /\ enVol[3 - r].reponse.statut = 500

----------------------------------------------------------------------------
(* C27: the list of a task *)

\* C27: in every state reached by list and task operations run one at a time,
\* the list of each task is either null or an existing list whose owner is the
\* owner of the task.
C27_ListeDeLaTache ==
    \A t \in DOMAIN taches :
        taches[t].liste_id # Null =>
            /\ taches[t].liste_id[1] \in DOMAIN listes
            /\ listes[taches[t].liste_id[1]].utilisateur_id = taches[t].utilisateur_id

\* A task is in a list of its owner, a list was deleted, and the move of a task
\* into the list of the other user has just been refused
C27_Temoin ==
    /\ reponse = Erreur("modifierTache", 403, MsgListeRefusee)
    /\ Cardinality(DOMAIN listes) < nbListes
    /\ \E t \in DOMAIN taches : taches[t].liste_id # Null
    /\ \E l \in DOMAIN listes : listes[l].utilisateur_id # requete.utilisateur

====
